---- MODULE Spec2Model ----
(***************************************************************************)
(* A model of the technical-analysis engine of Finance-Research:           *)
(*   src/src/agents/technical_analysis_agent.py  (TechnicalAnalysisAgent)  *)
(*   src/src/utils/advanced_indicators.py        (indicators, detectors)   *)
(*                                                                         *)
(* Floats are modelled by integers (prices in fixed units); every          *)
(* comparison of the code that involves a factor (x * 1.01, 0.03 * x) is   *)
(* cross-multiplied so that it is decided exactly.  A value pandas/ta      *)
(* cannot compute because the series is shorter than the window is NaN,    *)
(* and every ordering comparison with NaN is false, as in IEEE-754.        *)
(***************************************************************************)
EXTENDS Integers, Sequences, FiniteSets, TLC

VARIABLES
    df,                \* the bar table: its column names and its rows
    indicators,        \* the requested indicator names
    readings,          \* what pandas/ta compute from the bars where the window is met
    analysis_results,  \* the dict analyze_data returns
    signals,           \* the dict generate_signals returns
    pc,                \* position of the analysis call
    exc,               \* the exception that ended the call, or "none"
    call,              \* the call under way: its name and arguments
    ret,               \* what that call returned
    patterns,          \* the dict detect_patterns returned to run
    status,            \* self.state.status of the agent
    cached_analysis,   \* self.state.cached_analysis: cache key -> result
    tasks,             \* the calls under way on one agent, each with its own locals
    clock,             \* the time datetime.now() last returned
    messages,          \* len(self.state.messages)
    state_indicators,  \* self.state.indicators
    market_cache,      \* cached_data and last_cache_update of the market data agent
    workflow           \* the orchestrator's state and its position in the graph

vars == <<df, indicators, readings, analysis_results, signals, pc, exc, call, ret,
          patterns, status, cached_analysis, tasks, clock, messages,
          state_indicators, market_cache, workflow>>

\* what only calls that share one agent touch
shared == <<tasks, clock, messages, state_indicators, market_cache, workflow>>

\* what only run touches
agent == <<patterns, status, cached_analysis, shared>>

(***************************************************************************)
(* The bar table.  A table is written compactly: each entry of close, high *)
(* and low stands for `step` consecutive rows with that value, so step = 1 *)
(* gives the rows one by one and a single entry gives a flat table of      *)
(* `step` rows.  Rows are numbered from 0 as pandas numbers them.          *)
(***************************************************************************)

BarCount(d) == Len(d.close) * d.step

CloseAt(d, i) == d.close[(i \div d.step) + 1]
HighAt(d, i)  == d.high[(i \div d.step) + 1]
LowAt(d, i)   == d.low[(i \div d.step) + 1]

\* df["Close"].iloc[-1]
LastClose(d) == CloseAt(d, BarCount(d) - 1)

NoCall == [op |-> "none"]

\* no workflow of the orchestrator under way
NoWorkflow == [node |-> "none"]

(***************************************************************************)
(* Numbers                                                                 *)
(***************************************************************************)

\* float('nan'): the last value of a rolling/ewm series whose window is not met
NaN == -1000000

IsNaN(x) == x = NaN

\* Python's None where the code stores it in place of a number
None == -2000000

\* IEEE-754 comparisons: false as soon as one side is NaN
Gt(a, b) == ~IsNaN(a) /\ ~IsNaN(b) /\ a > b
Lt(a, b) == ~IsNaN(a) /\ ~IsNaN(b) /\ a < b

\* a < b * (num/den), a > b * (num/den) for den > 0
LtScaled(a, b, num, den) == ~IsNaN(a) /\ ~IsNaN(b) /\ a * den < b * num
GtScaled(a, b, num, den) == ~IsNaN(a) /\ ~IsNaN(b) /\ a * den > b * num

\* Python's built-in max(a, b) / min(a, b): the first argument unless the second beats it
PyMax(a, b) == IF Gt(b, a) THEN b ELSE a
PyMin(a, b) == IF Lt(b, a) THEN b ELSE a

Max(a, b) == IF b > a THEN b ELSE a

EmptyDict == [k \in {} |-> TRUE]

(***************************************************************************)
(* analyze_data                                                            *)
(***************************************************************************)

required_columns == <<"Open", "High", "Low", "Close", "Volume">>

\* str.lower() on the five required names
Lower(col) ==
    CASE col = "Open"   -> "open"
      [] col = "High"   -> "high"
      [] col = "Low"    -> "low"
      [] col = "Close"  -> "close"
      [] col = "Volume" -> "volume"

\* the upper-case spelling a provider may use for a field
Upper(col) ==
    CASE col = "Open"   -> "OPEN"
      [] col = "High"   -> "HIGH"
      [] col = "Low"    -> "LOW"
      [] col = "Close"  -> "CLOSE"
      [] col = "Volume" -> "VOLUME"

\* a fallback that lower-cases every column name of the table before looking
MissingColumns_any_case(columns) ==
    { i \in 1..Len(required_columns) :
        columns \cap {required_columns[i], Lower(required_columns[i]),
                      Upper(required_columns[i])} = {} }

\* the loop over required_columns: a column missing under both spellings raises
MissingColumns(columns) ==
    { i \in 1..Len(required_columns) :
        /\ required_columns[i] \notin columns
        /\ Lower(required_columns[i]) \notin columns }

\* df[col] = df[lower_col] for every required column found only in lower case
ResolvedColumns(columns) ==
    columns \cup { required_columns[i] : i \in
        { j \in 1..Len(required_columns) :
            /\ required_columns[j] \notin columns
            /\ Lower(required_columns[j]) \in columns } }

\* the last value of a series that needs `window` rows: NaN when the table is shorter
LastOf(value, n, window) == IF n >= window THEN value ELSE NaN

\* ta.volatility.AverageTrueRange writes atr[window - 1] into an array of n entries
AtrRaises(n) == n < 14

\* df['Close'].shift(-26) at 0-based row i: the close 26 rows later, NaN past the end
LaggingLine(d, i) == IF i + 26 <= BarCount(d) - 1 THEN CloseAt(d, i + 26) ELSE NaN

AnalysisOf(d, r, requested) ==
    LET n == BarCount(d) IN
    [k \in requested \cap {"sma", "ema", "rsi", "macd", "bollinger", "ichimoku",
                           "atr", "stochastic", "psar", "fibonacci",
                           "support_resistance"} |->
        CASE k = "sma" ->
               [sma_20  |-> LastOf(r.sma_20, n, 20),
                sma_50  |-> LastOf(r.sma_50, n, 50),
                sma_200 |-> LastOf(r.sma_200, n, 200)]
          [] k = "ema" ->
               [ema_12 |-> r.ema_12, ema_26 |-> r.ema_26, ema_50 |-> r.ema_50]
          [] k = "rsi" ->
               [rsi_14 |-> LastOf(r.rsi_14, n, 14)]
          [] k = "macd" ->
               [macd_line   |-> LastOf(r.macd_line, n, 26),
                signal_line |-> LastOf(r.signal_line, n, 34),
                histogram   |-> IF n >= 34 THEN r.macd_line - r.signal_line ELSE NaN]
          [] k = "bollinger" ->
               [upper_band  |-> LastOf(r.bb_high, n, 20),
                middle_band |-> LastOf(r.bb_mid, n, 20),
                lower_band  |-> LastOf(r.bb_low, n, 20),
                width       |-> LastOf(r.bb_width, n, 20),
                percent_b   |-> LastOf(r.bb_pct_b, n, 20)]
          [] k = "ichimoku" ->
               [tenkan_sen    |-> LastOf(r.tenkan_sen, n, 9),
                kijun_sen     |-> LastOf(r.kijun_sen, n, 26),
                senkou_span_a |-> LastOf(r.senkou_span_a, n, 26),
                senkou_span_b |-> LastOf(r.senkou_span_b, n, 52),
                chikou_span   |-> IF n > 26 THEN LaggingLine(d, n - 26) ELSE None]
          [] k = "atr" ->
               [atr_14 |-> r.atr_14]
          [] k = "stochastic" ->
               [k_value |-> LastOf(r.stoch_k, n, 14),
                d_value |-> LastOf(r.stoch_d, n, 16)]
          [] k = "psar" ->
               [psar_value |-> r.psar,
                trend |-> IF r.psar_up_indicator = 1 THEN "Uptrend" ELSE "Downtrend"]
          [] k = "fibonacci" ->
               \* prices in thousandths: min_price + ratio * (max_price - min_price)
               [f \in {0, 236, 382, 500, 618, 786, 1000} |->
                   IF f = 1000 THEN 1000 * r.max_price
                   ELSE 1000 * r.min_price + f * (r.max_price - r.min_price)]
          [] k = "support_resistance" ->
               [support_levels |-> r.support_levels,
                resistance_levels |-> r.resistance_levels]]

(***************************************************************************)
(* generate_signals                                                        *)
(***************************************************************************)

MovingAverageSignal(current_price, a) ==
    LET sma_50  == a["sma"].sma_50
        sma_200 == a["sma"].sma_200
        ema_12  == a["ema"].ema_12
        ema_26  == a["ema"].ema_26
        price_above_ma50  == Gt(current_price, sma_50)
        price_above_ma200 == Gt(current_price, sma_200)
    IN  [golden_cross |-> Gt(sma_50, sma_200) /\ LtScaled(sma_50, sma_200, 101, 100),
         death_cross  |-> Lt(sma_50, sma_200) /\ GtScaled(sma_50, sma_200, 99, 100),
         ema_crossover_bullish |-> Gt(ema_12, ema_26) /\ LtScaled(ema_12, ema_26, 101, 100),
         ema_crossover_bearish |-> Lt(ema_12, ema_26) /\ GtScaled(ema_12, ema_26, 99, 100),
         price_above_ma50  |-> price_above_ma50,
         price_above_ma200 |-> price_above_ma200,
         trend |-> IF price_above_ma50 /\ price_above_ma200 THEN "Bullish"
                   ELSE IF ~price_above_ma50 /\ ~price_above_ma200 THEN "Bearish"
                   ELSE "Mixed"]

\* the thresholds 70 and 30 taken as overbought and oversold themselves
RsiSignal_inclusive(a) ==
    LET rsi_14 == a["rsi"].rsi_14
    IN  [value      |-> rsi_14,
         overbought |-> ~IsNaN(rsi_14) /\ rsi_14 >= 70,
         oversold   |-> ~IsNaN(rsi_14) /\ rsi_14 <= 30,
         signal     |-> IF ~IsNaN(rsi_14) /\ rsi_14 >= 70 THEN "Sell"
                        ELSE IF ~IsNaN(rsi_14) /\ rsi_14 <= 30 THEN "Buy" ELSE "Neutral"]

RsiSignal(a) ==
    LET rsi_14 == a["rsi"].rsi_14
    IN  [value      |-> rsi_14,
         overbought |-> Gt(rsi_14, 70),
         oversold   |-> Lt(rsi_14, 30),
         signal     |-> IF Gt(rsi_14, 70) THEN "Sell"
                        ELSE IF Lt(rsi_14, 30) THEN "Buy" ELSE "Neutral"]

MacdSignal(a) ==
    LET macd_line   == a["macd"].macd_line
        signal_line == a["macd"].signal_line
        histogram   == a["macd"].histogram
    IN  [histogram_positive |-> Gt(histogram, 0),
         macd_above_signal  |-> Gt(macd_line, signal_line),
         crossover_bullish  |-> Gt(macd_line, signal_line)
                                /\ LtScaled(macd_line, signal_line, 11, 10),
         crossover_bearish  |-> Lt(macd_line, signal_line)
                                /\ GtScaled(macd_line, signal_line, 9, 10),
         signal |-> IF Gt(macd_line, signal_line) THEN "Buy" ELSE "Sell"]

BollingerSignal(current_price, a) ==
    LET upper_band == a["bollinger"].upper_band
        lower_band == a["bollinger"].lower_band
    IN  [price_above_upper |-> Gt(current_price, upper_band),
         price_below_lower |-> Lt(current_price, lower_band),
         percent_b |-> a["bollinger"].percent_b,
         signal |-> IF Gt(current_price, upper_band) THEN "Sell"
                    ELSE IF Lt(current_price, lower_band) THEN "Buy" ELSE "Neutral"]

StochasticSignal(a) ==
    LET k_value == a["stochastic"].k_value
        d_value == a["stochastic"].d_value
    IN  [overbought |-> Gt(k_value, 80),
         oversold   |-> Lt(k_value, 20),
         k_above_d  |-> Gt(k_value, d_value),
         crossover_bullish |-> Gt(k_value, d_value) /\ LtScaled(k_value, d_value, 11, 10),
         crossover_bearish |-> Lt(k_value, d_value) /\ GtScaled(k_value, d_value, 9, 10),
         signal |-> IF Gt(k_value, 80) THEN "Sell"
                    ELSE IF Lt(k_value, 20) THEN "Buy" ELSE "Neutral"]

IchimokuSignal(current_price, a) ==
    LET tenkan_sen    == a["ichimoku"].tenkan_sen
        kijun_sen     == a["ichimoku"].kijun_sen
        senkou_span_a == a["ichimoku"].senkou_span_a
        senkou_span_b == a["ichimoku"].senkou_span_b
        price_above_cloud == Gt(current_price, PyMax(senkou_span_a, senkou_span_b))
        price_below_cloud == Lt(current_price, PyMin(senkou_span_a, senkou_span_b))
        bullish_cloud     == Gt(senkou_span_a, senkou_span_b)
    IN  [price_above_cloud |-> price_above_cloud,
         price_below_cloud |-> price_below_cloud,
         price_in_cloud    |-> ~price_above_cloud /\ ~price_below_cloud,
         bullish_cloud     |-> bullish_cloud,
         tenkan_above_kijun |-> Gt(tenkan_sen, kijun_sen),
         signal |->
            IF price_above_cloud /\ Gt(tenkan_sen, kijun_sen) /\ bullish_cloud
              THEN "Strong Buy"
            ELSE IF price_above_cloud \/ (Gt(tenkan_sen, kijun_sen) /\ bullish_cloud)
              THEN "Buy"
            ELSE IF price_below_cloud /\ Lt(tenkan_sen, kijun_sen) /\ ~bullish_cloud
              THEN "Strong Sell"
            ELSE IF price_below_cloud \/ (Lt(tenkan_sen, kijun_sen) /\ ~bullish_cloud)
              THEN "Sell"
            ELSE "Neutral"]

\* the trend label written where the signal belongs
PsarSignal_trend_as_signal(current_price, a) ==
    LET psar_value == a["psar"].psar_value
    IN  [trend |-> a["psar"].trend,
         price_above_psar |-> Gt(current_price, psar_value),
         signal |-> IF Gt(current_price, psar_value) THEN "Uptrend" ELSE "Downtrend"]

PsarSignal(current_price, a) ==
    LET psar_value == a["psar"].psar_value
    IN  [trend |-> a["psar"].trend,
         price_above_psar |-> Gt(current_price, psar_value),
         signal |-> IF Gt(current_price, psar_value) THEN "Buy" ELSE "Sell"]

\* the per-indicator entries of signals, keyed as the code keys them
IndicatorSignals(current_price, a) ==
    LET keys == (IF {"sma", "ema"} \subseteq DOMAIN a THEN {"moving_averages"} ELSE {})
                \cup (DOMAIN a \cap {"rsi", "macd", "bollinger", "stochastic",
                                     "ichimoku", "psar"})
    IN  [k \in keys |->
            CASE k = "moving_averages" -> MovingAverageSignal(current_price, a)
              [] k = "rsi"        -> RsiSignal(a)
              [] k = "macd"       -> MacdSignal(a)
              [] k = "bollinger"  -> BollingerSignal(current_price, a)
              [] k = "stochastic" -> StochasticSignal(a)
              [] k = "ichimoku"   -> IchimokuSignal(current_price, a)
              [] k = "psar"       -> PsarSignal(current_price, a)]

\* an equality test in place of the substring test
ContainsBuy_exact(s) == s = "Buy"

\* "Buy" in s / "Sell" in s: substring tests on the Ichimoku signal
ContainsBuy(s)  == s \in {"Buy", "Strong Buy"}
ContainsSell(s) == s \in {"Sell", "Strong Sell"}

\* +1 for a bullish vote, -1 for a bearish vote, 0 for none
Vote(k, entry) ==
    CASE k = "moving_averages" ->
           IF entry.trend = "Bullish" THEN 1
           ELSE IF entry.trend = "Bearish" THEN -1 ELSE 0
      [] k = "ichimoku" ->
           IF ContainsBuy(entry.signal) THEN 1
           ELSE IF ContainsSell(entry.signal) THEN -1 ELSE 0
      [] OTHER ->
           IF entry.signal = "Buy" THEN 1
           ELSE IF entry.signal = "Sell" THEN -1 ELSE 0

overall_bullish(sig) == Cardinality({k \in DOMAIN sig : Vote(k, sig[k]) = 1})
overall_bearish(sig) == Cardinality({k \in DOMAIN sig : Vote(k, sig[k]) = -1})

\* the Strong upgrade taken at more than 4 votes instead of at 4
overall_signal_late_upgrade(bullish, bearish) ==
    IF bullish > bearish /\ bullish >= 2
      THEN (IF bullish > 4 THEN "Strong Buy" ELSE "Buy")
    ELSE IF bearish > bullish /\ bearish >= 2
      THEN (IF bearish > 4 THEN "Strong Sell" ELSE "Sell")
    ELSE "Neutral"

overall_signal(bullish, bearish) ==
    IF bullish > bearish /\ bullish >= 2
      THEN (IF bullish >= 4 THEN "Strong Buy" ELSE "Buy")
    ELSE IF bearish > bullish /\ bearish >= 2
      THEN (IF bearish >= 4 THEN "Strong Sell" ELSE "Sell")
    ELSE "Neutral"

\* the vote total used as the denominator without the max(1, .) guard
Confidence_unguarded(bullish, bearish) ==
    [num |-> Max(bullish, bearish), den |-> bullish + bearish]

\* max(bullish, bearish) / max(1, bullish + bearish), kept as the fraction it is
Confidence(bullish, bearish) ==
    [num |-> Max(bullish, bearish), den |-> Max(1, bullish + bearish)]

Overall(sig) ==
    LET bullish == overall_bullish(sig)
        bearish == overall_bearish(sig)
    IN  [signal        |-> overall_signal(bullish, bearish),
         bullish_count |-> bullish,
         bearish_count |-> bearish,
         confidence    |-> Confidence(bullish, bearish)]

SignalsOf(current_price, a) ==
    LET sig == IndicatorSignals(current_price, a)
    IN  [k \in DOMAIN sig \cup {"overall"} |->
            IF k = "overall" THEN Overall(sig) ELSE sig[k]]

(***************************************************************************)
(* The analysis call: analyze_data, then generate_signals                  *)
(***************************************************************************)

\* analyze_data: the column check, then one block per requested indicator
\* what analyze_data does to the table d and what it returns or raises
AnalyzeOutcome(d, r, requested) ==
    IF MissingColumns(d.columns) # {}
      THEN [pc |-> "failed", exc |-> "ValueError",
            \* columns before the missing one were already copied from lower case
            df |-> [d EXCEPT !.columns =
                      @ \cup { required_columns[i] : i \in
                          { j \in 1..Len(required_columns) :
                              /\ \A m \in MissingColumns(d.columns) : j < m
                              /\ required_columns[j] \notin d.columns } }],
            analysis_results |-> EmptyDict]
    ELSE IF "atr" \in requested /\ AtrRaises(BarCount(d))
      THEN [pc |-> "failed", exc |-> "IndexError",
            df |-> [d EXCEPT !.columns = ResolvedColumns(@)],
            analysis_results |-> EmptyDict]
      ELSE [pc |-> "analyzed", exc |-> "none",
            df |-> [d EXCEPT !.columns = ResolvedColumns(@)],
            analysis_results |-> AnalysisOf(d, r, requested)]

AnalyzeDataWith(outcome) ==
    /\ pc' = outcome.pc
    /\ df' = outcome.df
    /\ exc' = IF outcome.pc = "failed" THEN outcome.exc ELSE exc
    /\ analysis_results' =
          IF outcome.pc = "failed" THEN analysis_results ELSE outcome.analysis_results

AnalyzeData ==
    /\ pc = "start"
    /\ AnalyzeDataWith(AnalyzeOutcome(df, readings, indicators))
    /\ UNCHANGED <<indicators, readings, signals, call, ret, agent>>

\* generate_signals on the table and the dict analyze_data returned
GenerateSignalsAt(from, to) ==
    /\ pc = from
    /\ signals' = SignalsOf(LastClose(df), analysis_results)
    /\ pc' = to
    /\ UNCHANGED <<df, indicators, readings, analysis_results, exc, call, ret, agent>>

GenerateSignals == GenerateSignalsAt("analyzed", "done")

NextAnalysis == AnalyzeData \/ GenerateSignals

(***************************************************************************)
(* Inputs of the analysis call                                             *)
(***************************************************************************)

DefaultIndicators ==
    {"sma", "ema", "rsi", "macd", "bollinger", "ichimoku", "atr",
     "stochastic", "psar", "fibonacci", "patterns"}

BasicIndicators == {"sma", "ema", "rsi", "macd", "bollinger"}

IndicatorSets ==
    { DefaultIndicators,
      BasicIndicators,
      (DefaultIndicators \ {"atr"}) \cup {"support_resistance"},
      {"rsi", "bollinger", "stochastic"},
      {} }

\* numbers of bars: below every window, between the windows, above all of them
BarCounts == {5, 30, 60, 250}

StandardColumns == {"Date", "Open", "High", "Low", "Close", "Volume"}

\* n identical bars closing at 100
FlatTable(columns, n) ==
    [columns |-> columns, step |-> n, close |-> <<100>>, high |-> <<101>>, low |-> <<99>>]

\* the readings of one bar table whose last close is 100, one case per outcome
MaCases    == { <<90, 90>>, <<110, 110>>, <<90, 110>> }
RsiCases   == { 25, 50, 75 }
MacdCases  == { <<3, 2>>, <<2, 3>> }
BandCases  == { <<110, 90>>, <<95, 85>>, <<115, 105>> }
StochCases == { <<10, 50>>, <<50, 50>>, <<90, 50>> }
\* <<tenkan, kijun, span a, span b>>
CloudCases == { <<102, 101, 95, 90>>, <<101, 102, 90, 95>>, <<101, 101, 90, 110>>,
                <<101, 102, 110, 105>>, <<101, 102, 105, 110>> }
PsarCases  == { <<90, 1>>, <<110, 0>> }

ReadingOf(ma, rsi, macd, band, stoch, cloud, psar) ==
    [sma_20 |-> 100, sma_50 |-> ma[1], sma_200 |-> ma[2],
     ema_12 |-> 1005, ema_26 |-> 1000, ema_50 |-> 100,
     rsi_14 |-> rsi,
     macd_line |-> macd[1], signal_line |-> macd[2],
     bb_high |-> band[1], bb_low |-> band[2], bb_mid |-> (band[1] + band[2]) \div 2,
     bb_width |-> (100 * (band[1] - band[2])) \div ((band[1] + band[2]) \div 2),
     bb_pct_b |-> (100 * (100 - band[2])) \div (band[1] - band[2]),
     tenkan_sen |-> cloud[1], kijun_sen |-> cloud[2],
     senkou_span_a |-> cloud[3], senkou_span_b |-> cloud[4],
     atr_14 |-> 2,
     stoch_k |-> stoch[1], stoch_d |-> stoch[2],
     psar |-> psar[1], psar_up_indicator |-> psar[2],
     max_price |-> 120, min_price |-> 80,
     support_levels |-> <<90>>, resistance_levels |-> <<110>>]

ReadingSet ==
    { ReadingOf(ma, rsi, macd, band, stoch, cloud, psar) :
        ma \in MaCases, rsi \in RsiCases, macd \in MacdCases, band \in BandCases,
        stoch \in StochCases, cloud \in CloudCases, psar \in PsarCases }

InitSignals ==
    /\ df \in { FlatTable(StandardColumns, n) : n \in BarCounts }
    /\ indicators \in IndicatorSets
    /\ readings \in ReadingSet
    /\ analysis_results = EmptyDict
    /\ signals = EmptyDict
    /\ pc = "start"
    /\ exc = "none"
    /\ call = NoCall
    /\ ret = NoCall
    /\ patterns = EmptyDict
    /\ status = "idle"
    /\ cached_analysis = EmptyDict
    /\ tasks = <<>>
    /\ clock = 0
    /\ messages = 0
    /\ state_indicators = DefaultIndicators
    /\ market_cache = [cached_data |-> <<>>, last_cache_update |-> None]
    /\ workflow = NoWorkflow

SpecSignals == InitSignals /\ [][NextAnalysis]_vars

(***************************************************************************)
(* Claims about generate_signals                                           *)
(***************************************************************************)

Done == pc = "done"

\* C1: the overall signal is a function of the tally alone: Buy when
\* bullish_count > bearish_count and bullish_count >= 2, Strong Buy when
\* moreover bullish_count >= 4; Sell / Strong Sell symmetrically; Neutral on
\* every tie and on every lead with fewer than 2 votes; 4 against 1 is the
\* strong-buy level (which the code writes "Strong Buy").
C1_OverallRule ==
    Done =>
        LET o == signals["overall"]
            b == o.bullish_count
            s == o.bearish_count
        IN  /\ b = overall_bullish([k \in DOMAIN signals \ {"overall"} |-> signals[k]])
            /\ s = overall_bearish([k \in DOMAIN signals \ {"overall"} |-> signals[k]])
            /\ (b > s /\ b >= 4) => o.signal = "Strong Buy"
            /\ (b > s /\ b \in {2, 3}) => o.signal = "Buy"
            /\ (s > b /\ s >= 4) => o.signal = "Strong Sell"
            /\ (s > b /\ s \in {2, 3}) => o.signal = "Sell"
            /\ (b = s \/ (b > s /\ b < 2) \/ (s > b /\ s < 2)) => o.signal = "Neutral"
            /\ (b = 4 /\ s = 1) => o.signal = "Strong Buy"

C1_Witness ==
    /\ Done
    /\ signals["overall"].bullish_count = 4
    /\ signals["overall"].bearish_count = 1
    /\ signals["overall"].signal = "Strong Buy"

\* C2: confidence = max(bullish, bearish) / max(1, bullish + bearish): the
\* denominator is never 0, the value lies in [0, 1], is 0 exactly when no vote
\* was cast, is at least 1/2 once a vote was cast, and is 4/5 for 4 against 1.
C2_Confidence ==
    Done =>
        LET o == signals["overall"]
            b == o.bullish_count
            s == o.bearish_count
            c == o.confidence
        IN  /\ c.den > 0
            /\ c.num * Max(1, b + s) = Max(b, s) * c.den
            /\ 0 <= c.num /\ c.num <= c.den
            /\ (c.num = 0) <=> (b + s = 0)
            /\ (b + s > 0) => 2 * c.num >= c.den
            /\ (b = 4 /\ s = 1) => 5 * c.num = 4 * c.den

C2_Witness ==
    /\ Done
    /\ signals["overall"].bullish_count = 4
    /\ signals["overall"].bearish_count = 1
    /\ 5 * signals["overall"].confidence.num = 4 * signals["overall"].confidence.den

\* no vote at all: the guarded denominator
C2_NoVoteReached ==
    ~(Done /\ signals["overall"].bullish_count + signals["overall"].bearish_count = 0)

\* C3 as stated: every entry of signals, per-indicator and overall, carries a
\* `signal` field whose value is one of StrongBuy, Buy, Neutral, Sell,
\* StrongSell, spelled exactly so.
C3_Original ==
    Done =>
        \A k \in DOMAIN signals :
            /\ "signal" \in DOMAIN signals[k]
            /\ signals[k].signal \in {"StrongBuy", "Buy", "Neutral", "Sell", "StrongSell"}

\* C3 amended: every entry of signals except moving_averages carries a `signal`
\* field whose value is one of "Strong Buy", "Buy", "Neutral", "Sell",
\* "Strong Sell" (the strong levels written with a space); the moving_averages
\* entry carries no `signal` field but a `trend` in Bullish, Bearish, Mixed.
C3_Vocabulary ==
    Done =>
        \A k \in DOMAIN signals :
            IF k = "moving_averages"
              THEN /\ "signal" \notin DOMAIN signals[k]
                   /\ signals[k].trend \in {"Bullish", "Bearish", "Mixed"}
              ELSE /\ "signal" \in DOMAIN signals[k]
                   /\ signals[k].signal \in
                         {"Strong Buy", "Buy", "Neutral", "Sell", "Strong Sell"}

C3_Witness ==
    /\ Done
    /\ "moving_averages" \in DOMAIN signals
    /\ "psar" \in DOMAIN signals
    /\ "ichimoku" \in DOMAIN signals
    /\ signals["ichimoku"].signal = "Strong Buy"
    /\ signals["overall"].signal = "Strong Sell"

\* an indicator none of whose window-based inputs could be computed
Unavailable(k, a) ==
    CASE k = "moving_averages" -> IsNaN(a["sma"].sma_50) /\ IsNaN(a["sma"].sma_200)
      [] k = "rsi"        -> IsNaN(a["rsi"].rsi_14)
      [] k = "macd"       -> IsNaN(a["macd"].macd_line) /\ IsNaN(a["macd"].signal_line)
      [] k = "bollinger"  -> IsNaN(a["bollinger"].upper_band)
                             /\ IsNaN(a["bollinger"].lower_band)
      [] k = "stochastic" -> IsNaN(a["stochastic"].k_value)
      [] k = "ichimoku"   -> /\ IsNaN(a["ichimoku"].senkou_span_a)
                             /\ IsNaN(a["ichimoku"].senkou_span_b)
                             /\ IsNaN(a["ichimoku"].kijun_sen)
      [] OTHER -> FALSE

\* C8: a bar series shorter than an indicator's window fails neither
\* analyze_data nor generate_signals (the only failure is a missing column),
\* and an indicator that is unavailable casts neither a bullish nor a bearish
\* vote: the tally counts evaluated indicators only.
C8_ShortSeriesNoVote ==
    /\ (pc = "failed") => exc = "ValueError"
    /\ Done =>
          /\ \A k \in DOMAIN signals \ {"overall"} :
                Unavailable(k, analysis_results) => Vote(k, signals[k]) = 0
          /\ signals["overall"].bullish_count + signals["overall"].bearish_count
                <= Cardinality({k \in DOMAIN signals \ {"overall"} :
                                   ~Unavailable(k, analysis_results)})

\* the two halves of C8, each refuted on its own
C8_NoFailure == (pc = "failed") => exc = "ValueError"
C8_NoVote ==
    Done => \A k \in DOMAIN signals \ {"overall"} :
                Unavailable(k, analysis_results) => Vote(k, signals[k]) = 0

(***************************************************************************)
(* generate_signals at the thresholds of its rules                         *)
(***************************************************************************)

\* readings around the thresholds of the RSI, MACD and stochastic rules, the
\* other indicators at one reading
OscillatorReadings ==
    { ReadingOf(<<90, 90>>, rsi, macd, <<110, 90>>, <<k, 50>>,
                <<102, 101, 95, 90>>, <<90, 1>>) :
        rsi \in {0, 29, 30, 31, 69, 70, 71, 100},
        macd \in { <<3, 2>>, <<2, 2>>, <<2, 3>>, <<-2, -3>>, <<0, 0>> },
        k \in {0, 19, 20, 21, 79, 80, 81, 100} }

\* readings of the two averages and of the Ichimoku lines below, at and above
\* the last close 100, the other indicators at one reading
TrendReadings ==
    { ReadingOf(<<ma50, ma200>>, 50, <<3, 2>>, <<110, 90>>, <<50, 50>>,
                <<lines[1], lines[2], span_a, span_b>>, <<90, 1>>) :
        ma50 \in {90, 100, 110}, ma200 \in {90, 100, 110},
        lines \in { <<102, 101>>, <<101, 101>>, <<101, 102>> },
        span_a \in {90, 95, 100, 110}, span_b \in {90, 95, 100, 110} }

InitThresholds ==
    /\ df \in { FlatTable(StandardColumns, n) : n \in BarCounts }
    /\ indicators \in { DefaultIndicators \ {"atr"}, BasicIndicators,
                        {"rsi", "macd", "stochastic", "ichimoku"} }
    /\ readings \in OscillatorReadings \cup TrendReadings
    /\ analysis_results = EmptyDict
    /\ signals = EmptyDict
    /\ pc = "start"
    /\ exc = "none"
    /\ call = NoCall
    /\ ret = NoCall
    /\ patterns = EmptyDict
    /\ status = "idle"
    /\ cached_analysis = EmptyDict
    /\ tasks = <<>>
    /\ clock = 0
    /\ messages = 0
    /\ state_indicators = DefaultIndicators
    /\ market_cache = [cached_data |-> <<>>, last_cache_update |-> None]
    /\ workflow = NoWorkflow

SpecThresholds == InitThresholds /\ [][NextAnalysis]_vars

\* the label of a three-way rule: high when the value is above the upper
\* threshold, low when it is below the lower one, middle otherwise
ThreeWay(label, value, upper, lower, high, low, middle) ==
    /\ label \in {high, low, middle}
    /\ label = high <=> Gt(value, upper)
    /\ label = low <=> Lt(value, lower)
    /\ (value = upper \/ value = lower) => label = middle

\* C24: the RSI signal is Sell iff RSI > 70, Buy iff RSI < 30 and Neutral
\* otherwise (exactly 70 and exactly 30 are Neutral); the stochastic signal is
\* Sell iff %K > 80, Buy iff %K < 20 and Neutral otherwise; the MACD signal is
\* Buy iff the MACD line is above the signal line and Sell otherwise (equality
\* gives Sell, never Neutral).
C24_Thresholds ==
    Done =>
        /\ "rsi" \in DOMAIN signals =>
              ThreeWay(signals["rsi"].signal, analysis_results["rsi"].rsi_14,
                       70, 30, "Sell", "Buy", "Neutral")
        /\ "stochastic" \in DOMAIN signals =>
              ThreeWay(signals["stochastic"].signal,
                       analysis_results["stochastic"].k_value,
                       80, 20, "Sell", "Buy", "Neutral")
        /\ "macd" \in DOMAIN signals =>
              /\ signals["macd"].signal \in {"Buy", "Sell"}
              /\ signals["macd"].signal = "Buy"
                    <=> Gt(analysis_results["macd"].macd_line,
                           analysis_results["macd"].signal_line)

\* RSI exactly 70, %K exactly 80 and the MACD line on its signal line
C24_Witness ==
    /\ Done
    /\ {"rsi", "stochastic", "macd"} \subseteq DOMAIN signals
    /\ analysis_results["rsi"].rsi_14 = 70 /\ signals["rsi"].signal = "Neutral"
    /\ analysis_results["stochastic"].k_value = 80
    /\ signals["stochastic"].signal = "Neutral"
    /\ analysis_results["macd"].macd_line = analysis_results["macd"].signal_line
    /\ ~IsNaN(analysis_results["macd"].macd_line)
    /\ signals["macd"].signal = "Sell"

\* the bullish and bearish votes of the entries other than k
VotesWithout(k, sig, v) ==
    Cardinality({ j \in DOMAIN sig \ {"overall", k} : Vote(j, sig[j]) = v })

\* C25: the moving-average trend is Bullish exactly when the current price is
\* above both the 50- and the 200-period moving average, Bearish exactly when
\* it is below both, and Mixed in every other case (including the price being
\* equal to an average); it casts one bullish vote when Bullish, one bearish
\* vote when Bearish, and no vote when Mixed.
C25_MovingAverageTrend ==
    (Done /\ "moving_averages" \in DOMAIN signals) =>
        LET trend == signals["moving_averages"].trend
            price == LastClose(df)
            above == /\ Gt(price, analysis_results["sma"].sma_50)
                     /\ Gt(price, analysis_results["sma"].sma_200)
            below == /\ Lt(price, analysis_results["sma"].sma_50)
                     /\ Lt(price, analysis_results["sma"].sma_200)
        IN  /\ trend \in {"Bullish", "Bearish", "Mixed"}
            /\ trend = "Bullish" <=> above
            /\ trend = "Bearish" <=> below
            /\ trend = "Mixed" <=> (~above /\ ~below)
            /\ signals["overall"].bullish_count
                  = VotesWithout("moving_averages", signals, 1)
                      + (IF trend = "Bullish" THEN 1 ELSE 0)
            /\ signals["overall"].bearish_count
                  = VotesWithout("moving_averages", signals, -1)
                      + (IF trend = "Bearish" THEN 1 ELSE 0)

\* the part of C25 that holds: Bullish exactly when above both, Bearish
\* exactly when above neither, and the votes follow the label
C25_AboveBothOrNeither ==
    (Done /\ "moving_averages" \in DOMAIN signals) =>
        LET trend == signals["moving_averages"].trend
            price == LastClose(df)
            above50  == Gt(price, analysis_results["sma"].sma_50)
            above200 == Gt(price, analysis_results["sma"].sma_200)
        IN  /\ trend = "Bullish" <=> (above50 /\ above200)
            /\ trend = "Bearish" <=> (~above50 /\ ~above200)
            /\ trend = "Mixed" <=> (above50 # above200)
            /\ signals["overall"].bullish_count
                  = VotesWithout("moving_averages", signals, 1)
                      + (IF trend = "Bullish" THEN 1 ELSE 0)
            /\ signals["overall"].bearish_count
                  = VotesWithout("moving_averages", signals, -1)
                      + (IF trend = "Bearish" THEN 1 ELSE 0)

\* the price on both averages, reported as Bearish
C25_EqualReached ==
    /\ Done /\ "moving_averages" \in DOMAIN signals
    /\ analysis_results["sma"].sma_50 = LastClose(df)
    /\ analysis_results["sma"].sma_200 = LastClose(df)
    /\ signals["moving_averages"].trend = "Bearish"

\* the price is above both leading spans and the conversion line above the base line
AboveCloudAndBase(price, ichimoku) ==
    /\ Gt(price, ichimoku.senkou_span_a)
    /\ Gt(price, ichimoku.senkou_span_b)
    /\ Gt(ichimoku.tenkan_sen, ichimoku.kijun_sen)

\* an Ichimoku Buy or Strong Buy is one bullish vote and no bearish one, a Sell
\* or Strong Sell one bearish vote and no bullish one
IchimokuVotes ==
    /\ signals["overall"].bullish_count
          = VotesWithout("ichimoku", signals, 1)
              + (IF signals["ichimoku"].signal \in {"Buy", "Strong Buy"} THEN 1 ELSE 0)
    /\ signals["overall"].bearish_count
          = VotesWithout("ichimoku", signals, -1)
              + (IF signals["ichimoku"].signal \in {"Sell", "Strong Sell"} THEN 1 ELSE 0)

\* C26 as stated: whenever the current price is above both Ichimoku leading
\* spans and the conversion line is above the base line, the Ichimoku signal is
\* Strong Buy; and any Ichimoku Buy or Strong Buy counts as exactly one bullish
\* vote (Sell or Strong Sell as exactly one bearish vote) in the overall tally.
C26_Original ==
    (Done /\ "ichimoku" \in DOMAIN signals) =>
        /\ AboveCloudAndBase(LastClose(df), analysis_results["ichimoku"])
              => signals["ichimoku"].signal = "Strong Buy"
        /\ IchimokuVotes

\* C26: whenever the current price is above both Ichimoku leading spans, the
\* conversion line is above the base line and leading span A is above leading
\* span B, the Ichimoku signal is Strong Buy (with span A not above span B it
\* is Buy); and any Ichimoku Buy or Strong Buy counts as exactly one bullish
\* vote (Sell or Strong Sell as exactly one bearish vote) in the overall tally.
C26_StrongBuyInBullishCloud ==
    (Done /\ "ichimoku" \in DOMAIN signals) =>
        /\ AboveCloudAndBase(LastClose(df), analysis_results["ichimoku"]) =>
              IF Gt(analysis_results["ichimoku"].senkou_span_a,
                    analysis_results["ichimoku"].senkou_span_b)
                THEN signals["ichimoku"].signal = "Strong Buy"
                ELSE signals["ichimoku"].signal = "Buy"
        /\ IchimokuVotes

\* a Strong Buy above a bullish cloud, counted once
C26_Witness ==
    /\ Done /\ "ichimoku" \in DOMAIN signals
    /\ AboveCloudAndBase(LastClose(df), analysis_results["ichimoku"])
    /\ signals["ichimoku"].signal = "Strong Buy"
    /\ signals["overall"].bullish_count
          = VotesWithout("ichimoku", signals, 1) + 1

\* above both spans with the conversion line above the base line, and only Buy
C26_BearishCloudReached ==
    /\ Done /\ "ichimoku" \in DOMAIN signals
    /\ AboveCloudAndBase(LastClose(df), analysis_results["ichimoku"])
    /\ signals["ichimoku"].signal = "Buy"

\* analyze_data has returned its dict with an Ichimoku entry
IchimokuAnalysed ==
    /\ pc \in {"analyzed", "done"}
    /\ "ichimoku" \in DOMAIN analysis_results

\* C27: for every series of more than 26 bars, the lagging span (chikou_span)
\* reported by analyze_data is the close shifted back 26 periods read at a
\* position where that shifted series is defined, i.e. it equals an actual
\* close of the series and is not unavailable; for a series of 26 bars or
\* fewer it is reported as absent (None).
C27_LaggingSpan ==
    IchimokuAnalysed =>
        IF BarCount(df) > 26
          THEN /\ ~IsNaN(analysis_results["ichimoku"].chikou_span)
               /\ analysis_results["ichimoku"].chikou_span
                     \in { CloseAt(df, i) : i \in 0..(BarCount(df) - 1) }
          ELSE analysis_results["ichimoku"].chikou_span = None

\* what the code reports: None up to 26 bars, NaN for every longer series
C27_NeverAvailable ==
    IchimokuAnalysed =>
        analysis_results["ichimoku"].chikou_span
            = (IF BarCount(df) > 26 THEN NaN ELSE None)

\* both cases are analysed
C27_LongReached == IchimokuAnalysed /\ BarCount(df) > 26
C27_ShortReached == IchimokuAnalysed /\ BarCount(df) <= 26

(***************************************************************************)
(* The column check of analyze_data over tables with any field spelling    *)
(***************************************************************************)

\* how a table may carry one field: not at all, capitalised, lower case,
\* upper case, or both capitalised and lower case
FieldOptions(col) == { {}, {col}, {Lower(col)}, {Upper(col)}, {col, Lower(col)} }

ColumnSets ==
    { {"Date"} \cup o \cup h \cup l \cup c \cup v :
        o \in FieldOptions("Open"), h \in FieldOptions("High"),
        l \in FieldOptions("Low"), c \in FieldOptions("Close"),
        v \in FieldOptions("Volume") }

InitColumns ==
    /\ df \in { FlatTable(c, 60) : c \in ColumnSets }
    /\ indicators \in { BasicIndicators, {} }
    /\ readings = ReadingOf(<<90, 90>>, 50, <<3, 2>>, <<110, 90>>, <<50, 50>>,
                            <<102, 101, 95, 90>>, <<90, 1>>)
    /\ analysis_results = EmptyDict
    /\ signals = EmptyDict
    /\ pc = "start"
    /\ exc = "none"
    /\ call = NoCall
    /\ ret = NoCall
    /\ patterns = EmptyDict
    /\ status = "idle"
    /\ cached_analysis = EmptyDict
    /\ tasks = <<>>
    /\ clock = 0
    /\ messages = 0
    /\ state_indicators = DefaultIndicators
    /\ market_cache = [cached_data |-> <<>>, last_cache_update |-> None]
    /\ workflow = NoWorkflow

SpecColumns == InitColumns /\ [][NextAnalysis]_vars

\* the required fields the table carries under no letter case at all
AbsentAnyCase(columns) ==
    { i \in 1..Len(required_columns) :
        columns \cap {required_columns[i], Lower(required_columns[i]),
                      Upper(required_columns[i])} = {} }

\* the required fields the table carries neither capitalised nor in lower case
AbsentCapOrLower(columns) ==
    { i \in 1..Len(required_columns) :
        columns \cap {required_columns[i], Lower(required_columns[i])} = {} }

AnalyzeDataStep == pc = "start" /\ pc' # "start"
MissingFieldError == pc = "failed" /\ exc = "ValueError"

\* C6 as stated: analyze_data resolves each required field whatever the letter
\* case of its column name, and fails with the missing-field error if and only
\* if some required field is absent under every letter case.
C6_Original ==
    [][AnalyzeDataStep => (MissingFieldError' <=> AbsentAnyCase(df.columns) # {})]_vars

\* C6 amended: analyze_data resolves each required field by its capitalised
\* name ("Open") and falls back to the all-lower-case name ("open") only; it
\* fails with the missing-field error if and only if some required field is
\* present under neither of these two spellings, and when all five are present
\* under one of them it does not fail on field presence.
C6_CapOrLowerFallback ==
    [][AnalyzeDataStep =>
        /\ MissingFieldError' <=> AbsentCapOrLower(df.columns) # {}
        /\ (~MissingFieldError') =>
              \A i \in 1..Len(required_columns) : required_columns[i] \in df'.columns]_vars

\* a table with lower-case names only went through the fallback
C6_Witness ==
    /\ pc = "analyzed"
    /\ {"open", "high", "low", "close", "volume"} \subseteq df.columns
    /\ {"Open", "High", "Low", "Close", "Volume"} \subseteq df.columns
    /\ "sma" \in DOMAIN analysis_results

\* C13: an analysis call leaves the caller's bar table as it was (no column
\* added, removed or altered), for every set of requested indicators and every
\* accepted spelling of the field names.
C13_TableReadOnly == [][df' = df]_vars

\* what does hold: the only write is the fallback of analyze_data, which adds
\* the capitalised name of each required field found in lower case only, up to
\* the first field that is missing; the rows and generate_signals write nothing
C13_OnlyFallbackWrites ==
    [][/\ df'.close = df.close /\ df'.high = df.high /\ df'.low = df.low
       /\ df'.step = df.step
       /\ df.columns \subseteq df'.columns
       /\ df'.columns \subseteq ResolvedColumns(df.columns)
       /\ (df'.columns # df.columns) => AnalyzeDataStep]_vars

C13_FallbackWrote ==
    /\ pc \in {"analyzed", "failed"}
    /\ "close" \in df.columns /\ "Close" \in df.columns

(***************************************************************************)
(* Extrema and levels: _find_peaks, _find_troughs, _filter_levels          *)
(* Arrays are sequences; Python's 0-based position i is entry i + 1.       *)
(***************************************************************************)

At(data, i) == data[i + 1]

\* the slice without its last position: data[i-window:i+window]
SlicePositions_short(data, lo, hi) == { j \in lo..(hi - 2) : j < Len(data) }

\* the positions of data[lo:hi] for 0 <= lo: the slice is cut at the end of the array
SlicePositions(data, lo, hi) == { j \in lo..(hi - 1) : j < Len(data) }

\* the positions of a set, in increasing order
RECURSIVE Ascending(_)
Ascending(S) ==
    IF S = {} THEN <<>>
    ELSE LET least == CHOOSE x \in S : \A y \in S : x <= y
         IN  <<least>> \o Ascending(S \ {least})

Returned(v) == [raised |-> FALSE, value |-> v]
Raised(e)   == [raised |-> TRUE, error |-> e]

\* the loop bound taken one too far: range(window, len(data) - window + 1)
ExtremaRange_one_more(data, window) == window..(Len(data) - window)

\* range(window, len(data) - window)
ExtremaRange(data, window) == window..(Len(data) - window - 1)

Above(a, b) == a > b
Below(a, b) == a < b

\* the loop of _find_peaks (kind "max") / _find_troughs (kind "min"):
\* data[i] == max(slice) is "no entry of the slice is above data[i]"
Extrema(data, window, kind) ==
    LET positions == ExtremaRange(data, window)
        Beats(a, b) == IF kind = "max" THEN Above(a, b) ELSE Below(a, b)
    IN  IF \E i \in positions : i >= Len(data) \/ i < -Len(data)
          THEN Raised("IndexError")
        ELSE IF \E i \in positions : SlicePositions(data, i - window, i + window + 1) = {}
          THEN Raised("ValueError")
        ELSE Returned(Ascending(
                { i \in positions :
                    \A j \in SlicePositions(data, i - window, i + window + 1) :
                        ~Beats(At(data, j), At(data, i)) }))

find_peaks(data, window)   == Extrema(data, window, "max")
find_troughs(data, window) == Extrema(data, window, "min")

Abs(x) == IF x < 0 THEN -x ELSE x

\* the comparison taken as >=: a level exactly threshold away is kept
Far_or_equal(level, existing, pct) == Abs(level - existing) * 100 >= pct * existing

\* abs(level - existing) / existing > threshold, threshold = pct / 100, on the
\* numpy floats of a price array: x / 0 is inf for x # 0 and nan for x = 0
\* (nan > threshold is false); a ratio with a negative denominator is <= 0
Far(level, existing, pct) ==
    IF existing > 0 THEN Abs(level - existing) * 100 > pct * existing
    ELSE IF existing = 0 THEN level # 0
    ELSE FALSE

RECURSIVE FilterFrom(_, _, _)
FilterFrom(rest, filtered, pct) ==
    IF rest = <<>> THEN filtered
    ELSE LET level == Head(rest)
         IN  FilterFrom(Tail(rest),
                        IF \A j \in 1..Len(filtered) : Far(level, filtered[j], pct)
                          THEN Append(filtered, level) ELSE filtered,
                        pct)

filter_levels(levels, pct) ==
    IF levels = <<>> THEN <<>> ELSE FilterFrom(Tail(levels), <<levels[1]>>, pct)

FindPeaks ==
    /\ call.op = "_find_peaks" /\ ret = NoCall
    /\ ret' = find_peaks(call.data, call.window)
    /\ UNCHANGED <<df, indicators, readings, analysis_results, signals, pc, exc, call, agent>>

FindTroughs ==
    /\ call.op = "_find_troughs" /\ ret = NoCall
    /\ ret' = find_troughs(call.data, call.window)
    /\ UNCHANGED <<df, indicators, readings, analysis_results, signals, pc, exc, call, agent>>

FilterLevels ==
    /\ call.op = "_filter_levels" /\ ret = NoCall
    /\ ret' = Returned(filter_levels(call.levels, call.threshold))
    /\ UNCHANGED <<df, indicators, readings, analysis_results, signals, pc, exc, call, agent>>

NextLevels == FindPeaks \/ FindTroughs \/ FilterLevels

\* bounds of the arrays handed to the helpers
MaxLen == 5
MaxWindow == 2
MaxLevels == 4

SeqsUpTo(S, n) == UNION { [1..m -> S] : m \in 0..n }

\* prices in tenths: 100, 100.5, 101 (exactly 1% above 100), 101.1, 105
LevelValues == {1000, 1005, 1010, 1011, 1050}

\* thresholds in percent: the default 0.01 and a wider one
ThresholdsPct == {1, 5}

LevelCalls ==
    { [op |-> o, data |-> d, window |-> w] :
        o \in {"_find_peaks", "_find_troughs"}, d \in SeqsUpTo({1, 2, 3}, MaxLen),
        w \in 0..MaxWindow }
    \cup
    { [op |-> "_filter_levels", levels |-> l, threshold |-> t] :
        l \in SeqsUpTo(LevelValues, MaxLevels), t \in ThresholdsPct }

InitLevels ==
    /\ df = FlatTable(StandardColumns, 1)
    /\ indicators = {}
    /\ readings = ReadingOf(<<90, 90>>, 50, <<3, 2>>, <<110, 90>>, <<50, 50>>,
                            <<102, 101, 95, 90>>, <<90, 1>>)
    /\ analysis_results = EmptyDict
    /\ signals = EmptyDict
    /\ pc = "idle"
    /\ exc = "none"
    /\ call \in LevelCalls
    /\ ret = NoCall
    /\ patterns = EmptyDict
    /\ status = "idle"
    /\ cached_analysis = EmptyDict
    /\ tasks = <<>>
    /\ clock = 0
    /\ messages = 0
    /\ state_indicators = DefaultIndicators
    /\ market_cache = [cached_data |-> <<>>, last_cache_update |-> None]
    /\ workflow = NoWorkflow

SpecLevels == InitLevels /\ [][NextLevels]_vars

\* C4: for positive levels and threshold t, _filter_levels returns a
\* subsequence of its input that starts with the first level; a level is kept
\* only if it differs from every level kept before it by more than t relative
\* to that kept level, and every dropped level lies within t of some level kept
\* before it; [100, 100.5, 105] at 1% gives [100, 105].
C4_FilterLevels ==
    (call.op = "_filter_levels" /\ ret # NoCall) =>
        LET l == call.levels
            t == call.threshold
            Within(a, b) == Abs(a - b) * 100 <= t * b
        IN  /\ ~ret.raised
            /\ (l = <<>>) => ret.value = <<>>
            /\ (l # <<>>) =>
                  \E keep \in SUBSET (1..Len(l)) :
                      /\ 1 \in keep
                      /\ ret.value = [m \in 1..Cardinality(keep) |->
                                        l[Ascending(keep)[m]]]
                      /\ \A i \in keep : \A j \in keep :
                            j < i => ~Within(l[i], l[j])
                      /\ \A i \in (1..Len(l)) \ keep :
                            \E j \in keep : j < i /\ Within(l[i], l[j])
            /\ (l = <<1000, 1005, 1050>> /\ t = 1) => ret.value = <<1000, 1050>>

C4_Witness ==
    /\ call.op = "_filter_levels"
    /\ call.levels = <<1000, 1005, 1050>>
    /\ call.threshold = 1
    /\ ret # NoCall
    /\ ret.value = <<1000, 1050>>

\* C5: for an array no longer than 2 * window, the empty array included,
\* _find_peaks and _find_troughs return the empty list and do not raise.
C5_ShortArrayNoExtrema ==
    (call.op \in {"_find_peaks", "_find_troughs"} /\ ret # NoCall
        /\ Len(call.data) <= 2 * call.window) =>
            ret = Returned(<<>>)

C5_Witness ==
    /\ call.op = "_find_peaks"
    /\ Len(call.data) = 2 * call.window
    /\ call.window > 0
    /\ ret = Returned(<<>>)

\* a longer array does yield extrema
C5_LongArrayReached ==
    ~(call.op = "_find_troughs" /\ ret # NoCall /\ Len(call.data) = 2 * call.window + 1
        /\ call.window > 0 /\ ret.value # <<>>)

(***************************************************************************)
(* What the pattern detectors call: the 5-bar smoothing and                *)
(* scipy.signal.find_peaks(x, distance=window)                             *)
(***************************************************************************)

\* df['Close'].rolling(window=5).mean().dropna().values, kept as 5 * mean (the
\* sum of the 5 closes) so that it stays exact: every use compares two smoothed
\* values or one with a fraction of another
SmoothClose(d) ==
    LET n == BarCount(d)
    IN  IF n < 5 THEN <<>>
        ELSE [m \in 1..(n - 4) |->
                CloseAt(d, m - 1) + CloseAt(d, m) + CloseAt(d, m + 1)
                    + CloseAt(d, m + 2) + CloseAt(d, m + 3)]

Negated(x) == [m \in 1..Len(x) |-> -x[m]]

\* scipy's _local_maxima_1d: position l (0-based, 1 <= l <= len - 2) starts a
\* peak when x rises into it and, after the run of equal values that starts
\* there, x falls; the peak is reported at the middle of the run
LocalMaxima(x) ==
    LET n == Len(x)
        Ahead(l) == CHOOSE k \in (l + 1)..(n - 1) :
                        /\ k = n - 1 \/ At(x, k) # At(x, l)
                        /\ \A j \in (l + 1)..(k - 1) : At(x, j) = At(x, l)
    IN  { (l + Ahead(l) - 1) \div 2 :
            l \in { l \in 1..(n - 2) :
                      /\ At(x, l - 1) < At(x, l)
                      /\ At(x, Ahead(l)) < At(x, l) } }

\* a minimum distance that also removes a peak exactly `distance` away
RECURSIVE SelectByDistance_inclusive(_, _, _, _, _)
SelectByDistance_inclusive(x, peaks, todo, keep, distance) ==
    IF todo = {} THEN keep
    ELSE LET j == CHOOSE j \in todo : \A k \in todo :
                      \/ At(x, peaks[j]) > At(x, peaks[k])
                      \/ (At(x, peaks[j]) = At(x, peaks[k]) /\ j >= k)
         IN  SelectByDistance_inclusive(x, peaks, todo \ {j},
                IF j \in keep
                  THEN keep \ { k \in keep : k # j /\ Abs(peaks[j] - peaks[k]) <= distance }
                  ELSE keep,
                distance)

\* scipy's _select_by_peak_distance: from the highest peak down (of two equally
\* high ones the later first), a peak still kept removes every other peak
\* closer than `distance` positions to it
RECURSIVE SelectByDistance(_, _, _, _, _)
SelectByDistance(x, peaks, todo, keep, distance) ==
    IF todo = {} THEN keep
    ELSE LET j == CHOOSE j \in todo : \A k \in todo :
                      \/ At(x, peaks[j]) > At(x, peaks[k])
                      \/ (At(x, peaks[j]) = At(x, peaks[k]) /\ j >= k)
         IN  SelectByDistance(x, peaks, todo \ {j},
                IF j \in keep
                  THEN keep \ { k \in keep : k # j /\ Abs(peaks[j] - peaks[k]) < distance }
                  ELSE keep,
                distance)

\* signal.find_peaks(x, distance=distance)[0]
ScipyFindPeaks(x, distance) ==
    IF distance < 1 THEN Raised("ValueError")
    ELSE LET peaks == Ascending(LocalMaxima(x))
             keep  == SelectByDistance(x, peaks, 1..Len(peaks), 1..Len(peaks), distance)
         IN  Returned(Ascending({ peaks[k] : k \in keep }))

\* a detector without its try/except: the exception leaves the detector
Caught_not(r) == r

\* except Exception as e: return {"detected": False, "error": str(e)}
Caught(r) ==
    IF "raised" \in DOMAIN r /\ r.raised
      THEN [detected |-> FALSE, error |-> r.error]
      ELSE r

NotDetected == [detected |-> FALSE]

\* the greatest element: a loop that does not stop at its first match
Least_last(S) == CHOOSE x \in S : \A y \in S : x >= y

\* the least element of a non-empty set of integers
Least(S) == CHOOSE x \in S : \A y \in S : x <= y

\* next((t for t in xs if lo < t < hi), None) as the set of its results
FirstBetween(xs, lo, hi) ==
    LET inside == { xs[m] : m \in 1..Len(xs) } \cap ((lo + 1)..(hi - 1))
    IN  IF inside = {} THEN {} ELSE {Least(inside)}

\* abs(a - b) < 0.03 * a
Within3Pct(a, b) == Abs(a - b) * 100 < 3 * a

(***************************************************************************)
(* detect_head_and_shoulders                                               *)
(***************************************************************************)

\* the two scans over the peaks and troughs of the smoothed close
HeadAndShouldersScan(smooth_close, peaks, troughs) ==
        LET v(i)    == At(smooth_close, i)
            \* the standard form at the triple that starts at peaks[i]
            Standard(i) ==
                LET p1 == peaks[i]
                    p2 == peaks[i + 1]
                    p3 == peaks[i + 2]
                IN  /\ v(p2) > v(p1) /\ v(p2) > v(p3)
                    /\ \E t1 \in FirstBetween(troughs, p1, p2) :
                       \E t2 \in FirstBetween(troughs, p2, p3) :
                          Within3Pct(v(t1), v(t2))
            \* the inverse form at the triple that starts at troughs[i]
            Inverse(i) ==
                LET t1 == troughs[i]
                    t2 == troughs[i + 1]
                    t3 == troughs[i + 2]
                IN  /\ v(t2) < v(t1) /\ v(t2) < v(t3)
                    /\ \E p1 \in FirstBetween(peaks, t1, t2) :
                       \E p2 \in FirstBetween(peaks, t2, t3) :
                          Within3Pct(v(p1), v(p2))
            standard == { i \in 1..(Len(peaks) - 2) : Standard(i) }
            inverse  == { i \in 1..(Len(troughs) - 2) : Inverse(i) }
        IN  IF Len(troughs) < 2 THEN NotDetected
            ELSE IF standard # {} THEN
                LET i  == Least(standard)
                    t1 == Least(FirstBetween(troughs, peaks[i], peaks[i + 1]))
                    t2 == Least(FirstBetween(troughs, peaks[i + 1], peaks[i + 2]))
                IN  [detected |-> TRUE,
                     pattern_type |-> "head_and_shoulders",
                     positions |-> [left_shoulder |-> peaks[i], head |-> peaks[i + 1],
                                    right_shoulder |-> peaks[i + 2],
                                    left_trough |-> t1, right_trough |-> t2],
                     \* (smooth_close[t1] + smooth_close[t2]) / 2, in tenths of 5 * mean
                     neckline_value |-> v(t1) + v(t2)]
            ELSE IF inverse # {} THEN
                LET i  == Least(inverse)
                    p1 == Least(FirstBetween(peaks, troughs[i], troughs[i + 1]))
                    p2 == Least(FirstBetween(peaks, troughs[i + 1], troughs[i + 2]))
                IN  [detected |-> TRUE,
                     pattern_type |-> "inverse_head_and_shoulders",
                     positions |-> [left_shoulder |-> troughs[i], head |-> troughs[i + 1],
                                    right_shoulder |-> troughs[i + 2],
                                    left_peak |-> p1, right_peak |-> p2],
                     neckline_value |-> v(p1) + v(p2)]
            ELSE NotDetected

HeadAndShouldersFrom(smooth_close, found_peaks, window) ==
    IF found_peaks.raised THEN found_peaks
    ELSE IF Len(found_peaks.value) < 3 THEN NotDetected
    ELSE HeadAndShouldersScan(smooth_close, found_peaks.value,
                              ScipyFindPeaks(Negated(smooth_close), window).value)

HeadAndShouldersIn(smooth_close, window) ==
    HeadAndShouldersFrom(smooth_close, ScipyFindPeaks(smooth_close, window), window)

HeadAndShouldersBody(d, window) ==
    IF "Close" \notin d.columns THEN Raised("KeyError")
    ELSE HeadAndShouldersIn(SmoothClose(d), window)

detect_head_and_shoulders(d, window) == Caught(HeadAndShouldersBody(d, window))

(***************************************************************************)
(* detect_double_top_bottom                                                *)
(***************************************************************************)

\* abs(a - b) < threshold * a, threshold = pct / 100
WithinPct(a, b, pct) == Abs(a - b) * 100 < pct * a

\* every member of xs, wherever it lies
AllBetween_anywhere(xs, lo, hi) == { xs[m] : m \in 1..Len(xs) }

\* [t for t in xs if lo < t < hi]
AllBetween(xs, lo, hi) == { xs[m] : m \in 1..Len(xs) } \cap ((lo + 1)..(hi - 1))

\* the two scans over the peaks and troughs of the smoothed close
DoubleTopBottomScan(smooth_close, peaks, troughs, threshold) ==
        LET v(i)    == At(smooth_close, i)
            tops    == { i \in 1..(Len(peaks) - 1) :
                           /\ WithinPct(v(peaks[i]), v(peaks[i + 1]), threshold)
                           /\ AllBetween(troughs, peaks[i], peaks[i + 1]) # {} }
            bottoms == { i \in 1..(Len(troughs) - 1) :
                           /\ WithinPct(v(troughs[i]), v(troughs[i + 1]), threshold)
                           /\ AllBetween(peaks, troughs[i], troughs[i + 1]) # {} }
        IN  IF tops # {} THEN
                LET i == Least(tops)
                IN  [detected |-> TRUE,
                     pattern_type |-> "double_top",
                     positions |-> [first_peak |-> peaks[i], second_peak |-> peaks[i + 1],
                                    middle_trough |->
                                        Least(AllBetween(troughs, peaks[i], peaks[i + 1]))],
                     pattern_value |-> v(peaks[i]) + v(peaks[i + 1])]
            ELSE IF bottoms # {} THEN
                LET i == Least(bottoms)
                IN  [detected |-> TRUE,
                     pattern_type |-> "double_bottom",
                     positions |-> [first_trough |-> troughs[i],
                                    second_trough |-> troughs[i + 1],
                                    middle_peak |->
                                        Least(AllBetween(peaks, troughs[i], troughs[i + 1]))],
                     pattern_value |-> v(troughs[i]) + v(troughs[i + 1])]
            ELSE NotDetected

DoubleTopBottomFrom(smooth_close, found_peaks, window, threshold) ==
    IF found_peaks.raised THEN found_peaks
    ELSE DoubleTopBottomScan(smooth_close, found_peaks.value,
                             ScipyFindPeaks(Negated(smooth_close), window).value,
                             threshold)

DoubleTopBottomIn(smooth_close, window, threshold) ==
    DoubleTopBottomFrom(smooth_close, ScipyFindPeaks(smooth_close, window), window,
                        threshold)

DoubleTopBottomBody(d, window, threshold) ==
    IF "Close" \notin d.columns THEN Raised("KeyError")
    ELSE DoubleTopBottomIn(SmoothClose(d), window, threshold)

detect_double_top_bottom(d, window, threshold) ==
    Caught(DoubleTopBottomBody(d, window, threshold))

(***************************************************************************)
(* detect_cup_and_handle                                                   *)
(***************************************************************************)

\* the members of xs after position p
After(xs, p) == { xs[m] : m \in { k \in 1..Len(xs) : xs[k] > p } }

\* the scan over the peaks and troughs of the smoothed close
CupAndHandleScan(smooth_close, peaks, troughs) ==
        LET v(i)    == At(smooth_close, i)
            last    == smooth_close[Len(smooth_close)]
            \* the pass of the loop that starts at peaks[i] reaches the return
            Cup(i) ==
                LET p1 == peaks[i]
                IN  /\ After(troughs, p1) # {}
                    /\ LET cup_bottom == Least(After(troughs, p1))
                       IN  /\ After(peaks, cup_bottom) # {}
                           /\ LET p2 == Least(After(peaks, cup_bottom))
                              IN  /\ ~(Abs(v(p1) - v(p2)) * 100 > 5 * v(p1))
                                  /\ After(troughs, p2) # {}
                                  /\ LET handle_bottom == Least(After(troughs, p2))
                                     IN  /\ (v(p2) - v(handle_bottom)) * 10
                                              < 3 * (v(p1) - v(cup_bottom))
                                         /\ handle_bottom < Len(smooth_close) - 5
                                         /\ last > v(p2)
            cups == { i \in 1..(Len(peaks) - 1) : Cup(i) }
        IN  IF Len(peaks) < 2 \/ Len(troughs) < 1
              THEN [detected |-> FALSE, reason |-> "insufficient_peaks_troughs"]
            ELSE IF cups # {} THEN
                LET i  == Least(cups)
                    cb == Least(After(troughs, peaks[i]))
                    p2 == Least(After(peaks, cb))
                IN  [detected |-> TRUE,
                     pattern_type |-> "cup_and_handle",
                     positions |-> [cup_start |-> peaks[i], cup_bottom |-> cb,
                                    cup_end |-> p2,
                                    handle_bottom |-> Least(After(troughs, p2))]]
            ELSE NotDetected

CupAndHandleFrom(smooth_close, found_peaks, window) ==
    IF found_peaks.raised THEN found_peaks
    ELSE CupAndHandleScan(smooth_close, found_peaks.value,
                          ScipyFindPeaks(Negated(smooth_close), window).value)

CupAndHandleIn(smooth_close, window) ==
    CupAndHandleFrom(smooth_close, ScipyFindPeaks(smooth_close, window), window)

\* the scan with a 50-bar minimum
CupAndHandleBody_fifty(d, window) ==
    IF BarCount(d) < 50 THEN [detected |-> FALSE, reason |-> "insufficient_data"]
    ELSE IF "Close" \notin d.columns THEN Raised("KeyError")
    ELSE CupAndHandleIn(SmoothClose(d), window)

CupAndHandleBody(d, window) ==
    IF BarCount(d) < 60 THEN [detected |-> FALSE, reason |-> "insufficient_data"]
    ELSE IF "Close" \notin d.columns THEN Raised("KeyError")
    ELSE CupAndHandleIn(SmoothClose(d), window)

detect_cup_and_handle(d, window) == Caught(CupAndHandleBody(d, window))

(***************************************************************************)
(* detect_flag_pennant                                                     *)
(***************************************************************************)

\* the 0-based rows of df.tail(k), k >= 0
TailRows(d, k) == { i \in 0..(BarCount(d) - 1) : i >= BarCount(d) - k }

MaxOf(S) == CHOOSE x \in S : \A y \in S : x >= y
MinOf(S) == CHOOSE x \in S : \A y \in S : x <= y

\* the sum of the values of a function with a finite domain
RECURSIVE SumOf(_)
SumOf(f) ==
    IF DOMAIN f = {} THEN 0
    ELSE LET x == CHOOSE x \in DOMAIN f : TRUE
         IN  f[x] + SumOf([y \in DOMAIN f \ {x} |-> f[y]])

\* the least-squares slope np.polyfit(x, y, 1)[0] over x = 0..w-1 is
\* 2 * SlopeNum / SlopeDen, with SlopeDen > 0 as soon as w >= 2
SlopeNum(rows, y) ==
    LET w     == Cardinality(rows)
        first == MinOf(rows)
    IN  SumOf([i \in rows |-> (2 * (i - first) - (w - 1)) * y[i]])

SlopeDen(rows) ==
    LET w     == Cardinality(rows)
        first == MinOf(rows)
    IN  SumOf([i \in rows |-> (2 * (i - first) - (w - 1)) * (2 * (i - first) - (w - 1))])

\* every pole taken as a rise
IsBullish_always(first, move) == TRUE

\* is_bullish = price_change > 0, price_change = move / first in numpy floats
IsBullish(first, move) ==
    \/ (first > 0 /\ move > 0)
    \/ (first < 0 /\ move < 0)
    \/ (first = 0 /\ move > 0)

FlagPennantBody(d, window) ==
    IF BarCount(d) < 20 THEN [detected |-> FALSE, reason |-> "insufficient_data"]
    ELSE IF "Close" \notin d.columns THEN Raised("KeyError")
    ELSE
    LET n     == BarCount(d)
        first == CloseAt(d, n - 20)
        move  == CloseAt(d, n - 1) - first
        \* price_change = move / first in numpy floats: +-inf or nan when first = 0
        \* abs(price_change) < 0.05
        small_move == first # 0 /\ Abs(move) * 100 < 5 * Abs(first)
        is_bullish == IsBullish(first, move)
    IN  IF small_move THEN [detected |-> FALSE, reason |-> "insufficient_trend"]
        ELSE IF ~({"High", "Low"} \subseteq d.columns) THEN Raised("KeyError")
        ELSE
        LET rows == TailRows(d, window)
        IN  IF rows = {} THEN NotDetected     \* max of no rows is nan: no comparison holds
            ELSE
            LET consolidation_high == MaxOf({ HighAt(d, i) : i \in rows })
                consolidation_low  == MinOf({ LowAt(d, i) : i \in rows })
                range_num == consolidation_high - consolidation_low
                \* consolidation_range < 0.5 * abs(price_change), both sides as
                \* numpy floats: nan compares false, inf as infinity
                narrow ==
                    IF first = 0 /\ move = 0 THEN FALSE
                    ELSE IF consolidation_low = 0
                      THEN range_num < 0
                    ELSE IF first = 0
                      THEN TRUE
                    ELSE IF consolidation_low > 0
                      THEN range_num * 2 * Abs(first) < Abs(move) * consolidation_low
                      ELSE range_num * 2 * Abs(first) > Abs(move) * consolidation_low
                high_slope == SlopeNum(rows, [i \in rows |-> HighAt(d, i)])
                low_slope  == SlopeNum(rows, [i \in rows |-> LowAt(d, i)])
            IN  IF ~narrow THEN NotDetected
                ELSE IF \/ (is_bullish /\ high_slope < 0 /\ low_slope > 0)
                        \/ (~is_bullish /\ high_slope > 0 /\ low_slope < 0)
                  THEN [detected |-> TRUE, pattern_type |-> "pennant",
                        direction |-> IF is_bullish THEN "bullish" ELSE "bearish"]
                ELSE IF /\ Abs(2 * (high_slope - low_slope)) * 1000 < SlopeDen(rows)
                        /\ \/ (is_bullish /\ high_slope < 0)
                           \/ (~is_bullish /\ high_slope > 0)
                  THEN [detected |-> TRUE, pattern_type |-> "flag",
                        direction |-> IF is_bullish THEN "bullish" ELSE "bearish"]
                ELSE NotDetected

detect_flag_pennant(d, window) == Caught(FlagPennantBody(d, window))

(***************************************************************************)
(* detect_patterns: the four detectors with their default parameters       *)
(***************************************************************************)

IsRaised(r) == "raised" \in DOMAIN r /\ r.raised

\* h_and_s.get("detected", False)
GetDetected(r) == "detected" \in DOMAIN r /\ r.detected

\* detect_patterns storing every detector's result, detected or not
PatternsFrom_unfiltered(h_and_s, double_pattern, cup_handle, flag_pennant) ==
    LET order == <<"head_and_shoulders", "double_pattern", "cup_and_handle", "flag_pennant">>
        Result(k) == CASE k = "head_and_shoulders" -> h_and_s
                       [] k = "double_pattern"     -> double_pattern
                       [] k = "cup_and_handle"     -> cup_handle
                       [] k = "flag_pennant"       -> flag_pennant
        escaped == { m \in 1..4 : IsRaised(Result(order[m])) }
        kept    == { m \in 1..4 : GetDetected(Result(order[m])) }
        keys    == Ascending(kept)
    IN  IF escaped # {} THEN Raised(Result(order[Least(escaped)]).error)
        ELSE [k \in { order[m] : m \in 1..4 } \cup {"summary"} |->
                IF k = "summary"
                  THEN [detected_count |-> Len(keys),
                        detected_patterns |-> [m \in 1..Len(keys) |-> order[keys[m]]]]
                  ELSE Result(k)]

PatternsFrom(h_and_s, double_pattern, cup_handle, flag_pennant) ==
    LET order == <<"head_and_shoulders", "double_pattern", "cup_and_handle", "flag_pennant">>
        Result(k) == CASE k = "head_and_shoulders" -> h_and_s
                       [] k = "double_pattern"     -> double_pattern
                       [] k = "cup_and_handle"     -> cup_handle
                       [] k = "flag_pennant"       -> flag_pennant
        escaped == { m \in 1..4 : IsRaised(Result(order[m])) }
        kept    == { m \in 1..4 : GetDetected(Result(order[m])) }
        keys    == Ascending(kept)
    IN  IF escaped # {} THEN Raised(Result(order[Least(escaped)]).error)
        ELSE [k \in { order[m] : m \in kept } \cup {"summary"} |->
                IF k = "summary"
                  THEN [detected_count |-> Len(keys),
                        detected_patterns |-> [m \in 1..Len(keys) |-> order[keys[m]]]]
                  ELSE Result(k)]

PatternsOf(d) ==
    PatternsFrom(detect_head_and_shoulders(d, 20), detect_double_top_bottom(d, 20, 3),
                 detect_cup_and_handle(d, 20), detect_flag_pennant(d, 10))

\* one direct call of a detector, or of detect_patterns, on the table df
DetectorResult(c, d) ==
    CASE c.op = "detect_head_and_shoulders" -> detect_head_and_shoulders(d, c.window)
      [] c.op = "detect_double_top_bottom"  -> detect_double_top_bottom(d, c.window, 3)
      [] c.op = "detect_cup_and_handle"     -> detect_cup_and_handle(d, c.window)
      [] c.op = "detect_flag_pennant"       -> detect_flag_pennant(d, c.window)

DetectorNames ==
    {"detect_head_and_shoulders", "detect_double_top_bottom",
     "detect_cup_and_handle", "detect_flag_pennant"}

CallDetector ==
    /\ call.op \in DetectorNames /\ ret = NoCall
    /\ ret' = DetectorResult(call, df)
    /\ UNCHANGED <<df, indicators, readings, analysis_results, signals, pc, exc, call, agent>>

DetectPatterns ==
    /\ call.op = "detect_patterns" /\ ret = NoCall
    /\ ret' = PatternsOf(df)
    /\ UNCHANGED <<df, indicators, readings, analysis_results, signals, pc, exc, call, agent>>

NextPatterns == CallDetector \/ DetectPatterns

(***************************************************************************)
(* Tables handed to the detectors                                          *)
(***************************************************************************)

\* number of 10-bar segments of a shaped table
MaxKnots == 7

\* number of 5-bar segments of a table that ends in a consolidation
MaxSegments == 4

Table(columns, step, close, spread) ==
    [columns |-> columns, step |-> step, close |-> close,
     high |-> [m \in 1..Len(close) |-> close[m] + spread[m]],
     low  |-> [m \in 1..Len(close) |-> close[m] - spread[m]]]

\* closes that go through the levels 100, 104, 105, 110 in 10-bar segments
ShapedTables ==
    { Table(StandardColumns, 10, c, [m \in 1..MaxKnots |-> 1]) :
        c \in [1..MaxKnots -> {100, 104, 105, 110}] }

\* 5-bar segments with a pole and a consolidation of varying spread
PoleTables ==
    { Table(StandardColumns, 5, c, sp) :
        c \in [1..MaxSegments -> {100, 110, 111}], sp \in [1..MaxSegments -> {1, 2}] }

\* closes (in tenths) whose 5-bar mean has exactly the peaks 100, 110, 100 at
\* positions 10, 20, 30 and the troughs 95, 95.5 at positions 15, 25
SyntheticTables ==
    { Table(StandardColumns, 5, <<a, 950, 1000, 950, 1100, 955, 1000, z>>,
            [m \in 1..8 |-> 5]) : a \in {900, 925}, z \in {900, 950} }

\* closes (in tenths) whose 5-bar mean has three troughs, the middle one lowest,
\* and three peaks: the inverse form qualifies, the standard one with it or not
InverseTables ==
    { Table(StandardColumns, 5, <<1000, 950, 1000, 900, h, t, 1000, 900>>,
            [m \in 1..8 |-> 5]) : h \in {1005, 1010}, t \in {905, 950} }

\* closes (in tenths) whose 5-bar mean has five peaks 100, 110, 100, 110, 100:
\* the first and the third triple have a head; the first has its troughs less
\* than 3% apart or not
TwoHeadTables ==
    { Table(StandardColumns, 5,
            <<900, 1000, t, 1100, 955, 1000, 950, 1100, 955, 1000, 900>>,
            [m \in 1..11 |-> 5]) : t \in {900, 950} }

\* closes (in tenths) with the peaks 100, 110, 111 (the second pair is a double
\* top), and with two equal peaks 20 bars apart whose troughs in between lie
\* within 20 bars of a deeper trough outside
TwoTopTables ==
    { Table(StandardColumns, 5, <<900, 1000, 950, 1100, 955, 1110, 950>>,
            [m \in 1..7 |-> 5]) }
    \cup { Table(StandardColumns, 5, <<1000, 900, 1100, 950, 1050, 950, 1100, c, 1000>>,
                  [m \in 1..9 |-> 5]) : c \in {800, 900} }

\* closes (in tenths) of 55 or 60 bars: a peak 100, a cup bottom 80, a lip p, a
\* handle h and a last level z held to the end
CupTables ==
    { Table(StandardColumns, 5, <<900, 1000, 800, p, h>> \o [m \in 1..k |-> z],
            [m \in 1..(5 + k) |-> 5]) :
        p \in {940, 990}, h \in {900, 950}, z \in {980, 1010}, k \in {6, 7} }

\* tables a detector cannot evaluate: no rows, fewer rows than a window,
\* a missing column, constant prices, zero prices
EdgeTables ==
    { Table(StandardColumns, 1, <<>>, <<>>),
      Table(StandardColumns, 3, <<100>>, <<1>>),
      Table(StandardColumns, 19, <<100>>, <<1>>),
      Table(StandardColumns, 59, <<100>>, <<1>>),
      Table(StandardColumns, 70, <<100>>, <<1>>),
      Table(StandardColumns, 70, <<0>>, <<0>>),
      Table(StandardColumns, 10, <<0, 0, 0, 0, 0, 0, 5>>, <<0, 0, 0, 0, 0, 0, 0>>),
      Table(StandardColumns, 10, <<0, 5, 0, 5, 0, 5, 0>>, <<0, 0, 0, 0, 0, 0, 0>>),
      Table({"Date", "Open", "High", "Low", "Volume"}, 70, <<100>>, <<1>>),
      Table({"Date", "Open", "Close", "Volume"}, 10, <<100, 100, 100, 100, 100, 100, 110>>,
            <<1, 1, 1, 1, 1, 1, 1>>),
      Table({"Date"}, 3, <<100>>, <<1>>) }

\* the windows a direct call passes: an invalid one, a narrow one, and the
\* defaults 10 and 20
DetectorWindows == {0, 5, 10, 20}

InitPatterns ==
    /\ \/ /\ df \in ShapedTables \cup PoleTables \cup SyntheticTables \cup InverseTables
                    \cup TwoHeadTables \cup TwoTopTables \cup CupTables \cup EdgeTables
          /\ call = [op |-> "detect_patterns"]
       \/ /\ df \in PoleTables \cup SyntheticTables \cup InverseTables \cup TwoHeadTables
                    \cup TwoTopTables \cup CupTables \cup EdgeTables
          /\ call \in { [op |-> o, window |-> w] : o \in DetectorNames, w \in DetectorWindows }
    /\ indicators = {}
    /\ readings = ReadingOf(<<90, 90>>, 50, <<3, 2>>, <<110, 90>>, <<50, 50>>,
                            <<102, 101, 95, 90>>, <<90, 1>>)
    /\ analysis_results = EmptyDict
    /\ signals = EmptyDict
    /\ pc = "idle"
    /\ exc = "none"
    /\ ret = NoCall
    /\ patterns = EmptyDict
    /\ status = "idle"
    /\ cached_analysis = EmptyDict
    /\ tasks = <<>>
    /\ clock = 0
    /\ messages = 0
    /\ state_indicators = DefaultIndicators
    /\ market_cache = [cached_data |-> <<>>, last_cache_update |-> None]
    /\ workflow = NoWorkflow

SpecPatterns == InitPatterns /\ [][NextPatterns]_vars

\* what keeps a detector from evaluating its pattern on the table
CannotEvaluate(c, d) ==
    \/ "Close" \notin d.columns
    \/ BarCount(d) < 5
    \/ c.window < 1
    \/ c.op = "detect_cup_and_handle" /\ BarCount(d) < 60
    \/ c.op = "detect_flag_pennant"
          /\ (BarCount(d) < 20 \/ ~({"High", "Low"} \subseteq d.columns))

\* C9: none of the four detectors raises: on every table (empty, shorter than
\* a window, missing columns, constant or zero prices) it returns a result with
\* a `detected` field, which is false whenever the detector cannot evaluate the
\* pattern; detect_patterns therefore never aborts and returns its summary.
C9_DetectorsNeverRaise ==
    /\ (call.op \in DetectorNames /\ ret # NoCall) =>
          /\ ~IsRaised(ret)
          /\ "detected" \in DOMAIN ret
          /\ ret.detected \in BOOLEAN
          /\ CannotEvaluate(call, df) => ~ret.detected
    /\ (call.op = "detect_patterns" /\ ret # NoCall) =>
          /\ ~IsRaised(ret)
          /\ "summary" \in DOMAIN ret
          /\ ret.summary.detected_count = Cardinality(DOMAIN ret \ {"summary"})
          /\ \A k \in DOMAIN ret \ {"summary"} : ret[k].detected

\* a detector caught the exception of its own body
C9_Witness ==
    /\ call.op = "detect_flag_pennant"
    /\ BarCount(df) >= 20
    /\ "High" \notin df.columns
    /\ ret # NoCall
    /\ "error" \in DOMAIN ret
    /\ ~ret.detected

\* detect_patterns went through a table without a Close column
C9_PatternsReached ==
    ~(call.op = "detect_patterns" /\ "Close" \notin df.columns /\ ret # NoCall
        /\ ret.summary.detected_count = 0)

\* the smoothed close (5 * mean, prices in tenths) has exactly the peaks
\* 100, 110, 100 at 10, 20, 30 and the troughs 95, 95.5 at 15, 25
SyntheticSeries(d) ==
    /\ "Close" \in d.columns
    /\ BarCount(d) >= 36
    /\ LocalMaxima(SmoothClose(d)) = {10, 20, 30}
    /\ LocalMaxima(Negated(SmoothClose(d))) = {15, 25}
    /\ At(SmoothClose(d), 10) = 5 * 1000
    /\ At(SmoothClose(d), 20) = 5 * 1100
    /\ At(SmoothClose(d), 30) = 5 * 1000
    /\ At(SmoothClose(d), 15) = 5 * 950
    /\ At(SmoothClose(d), 25) = 5 * 955

\* window: int = 20
DefaultWindow == 20

\* C10 as stated: on that series detect_head_and_shoulders with its default
\* parameters returns detected = true with pattern_type "head_and_shoulders".
C10_Original ==
    (call.op = "detect_head_and_shoulders" /\ call.window = DefaultWindow
        /\ ret # NoCall /\ SyntheticSeries(df)) =>
            /\ ret.detected
            /\ ret.pattern_type = "head_and_shoulders"

\* C10 amended: on that series detect_head_and_shoulders returns detected =
\* true with pattern_type "head_and_shoulders" (shoulders 10 and 30, head 20,
\* troughs 15 and 25) when called with a window from 1 to 10; with its default
\* window of 20 the minimum peak distance leaves only the peak at 20 and it
\* returns detected = false.
C10_DetectedUpToWindow10 ==
    (call.op = "detect_head_and_shoulders" /\ ret # NoCall /\ SyntheticSeries(df)) =>
        /\ (call.window >= 1 /\ call.window <= 10) =>
              /\ ret.detected
              /\ ret.pattern_type = "head_and_shoulders"
              /\ ret.positions = [left_shoulder |-> 10, head |-> 20, right_shoulder |-> 30,
                                  left_trough |-> 15, right_trough |-> 25]
        /\ call.window = DefaultWindow => ret = NotDetected

C10_Witness ==
    /\ call.op = "detect_head_and_shoulders"
    /\ call.window = 10
    /\ SyntheticSeries(df)
    /\ ret # NoCall
    /\ ret.detected

(***************************************************************************)
(* What the scans of the detectors find, stated over the peaks and troughs *)
(***************************************************************************)

\* the positions of a list that lie strictly between lo and hi
StrictlyBetween(xs, lo, hi) == { xs[m] : m \in 1..Len(xs) } \cap ((lo + 1)..(hi - 1))

\* the consecutive peak triples that make a head and shoulders: the middle peak
\* above both others, a trough in each gap, the first troughs of the two gaps
\* less than 3% of the first apart
QualifyingTriples(x, peaks, troughs) ==
    { i \in 1..(Len(peaks) - 2) :
        /\ At(x, peaks[i + 1]) > At(x, peaks[i])
        /\ At(x, peaks[i + 1]) > At(x, peaks[i + 2])
        /\ StrictlyBetween(troughs, peaks[i], peaks[i + 1]) # {}
        /\ StrictlyBetween(troughs, peaks[i + 1], peaks[i + 2]) # {}
        /\ Abs(At(x, MinOf(StrictlyBetween(troughs, peaks[i], peaks[i + 1])))
                 - At(x, MinOf(StrictlyBetween(troughs, peaks[i + 1], peaks[i + 2])))) * 100
             < 3 * At(x, MinOf(StrictlyBetween(troughs, peaks[i], peaks[i + 1]))) }

\* the consecutive peak pairs that make a double top
QualifyingTops(x, peaks, troughs, pct) ==
    { i \in 1..(Len(peaks) - 1) :
        /\ Abs(At(x, peaks[i]) - At(x, peaks[i + 1])) * 100 < pct * At(x, peaks[i])
        /\ StrictlyBetween(troughs, peaks[i], peaks[i + 1]) # {} }

\* converging trend lines over the last window bars: highs falling and lows
\* rising after a rise, highs rising and lows falling after a fall
PennantShape(d, rows, bullish) ==
    IF bullish
      THEN /\ SlopeNum(rows, [i \in rows |-> HighAt(d, i)]) < 0
           /\ SlopeNum(rows, [i \in rows |-> LowAt(d, i)]) > 0
      ELSE /\ SlopeNum(rows, [i \in rows |-> HighAt(d, i)]) > 0
           /\ SlopeNum(rows, [i \in rows |-> LowAt(d, i)]) < 0

\* the result r of a family's detector on d reports the second form of the
\* family only when the first form does not qualify
ScannedInOrder(family, r, d, window) ==
    CASE family = "head_and_shoulders" ->
           (r.detected /\ r.pattern_type = "inverse_head_and_shoulders")
             => QualifyingTriples(SmoothClose(d),
                                  ScipyFindPeaks(SmoothClose(d), window).value,
                                  ScipyFindPeaks(Negated(SmoothClose(d)), window).value) = {}
      [] family = "double_pattern" ->
           (r.detected /\ r.pattern_type = "double_bottom")
             => QualifyingTops(SmoothClose(d),
                               ScipyFindPeaks(SmoothClose(d), window).value,
                               ScipyFindPeaks(Negated(SmoothClose(d)), window).value, 3) = {}
      [] family = "flag_pennant" ->
           (r.detected /\ r.pattern_type = "flag")
             => ~PennantShape(d, TailRows(d, window), r.direction = "bullish")
      [] OTHER -> TRUE

Families == {"head_and_shoulders", "double_pattern", "cup_and_handle", "flag_pennant"}

\* the family a detector belongs to, and the detector of a family as
\* detect_patterns calls it
FamilyOf(op) ==
    CASE op = "detect_head_and_shoulders" -> "head_and_shoulders"
      [] op = "detect_double_top_bottom"  -> "double_pattern"
      [] op = "detect_cup_and_handle"     -> "cup_and_handle"
      [] op = "detect_flag_pennant"       -> "flag_pennant"

DefaultCall(family) ==
    CASE family = "head_and_shoulders" -> [op |-> "detect_head_and_shoulders", window |-> 20]
      [] family = "double_pattern"     -> [op |-> "detect_double_top_bottom", window |-> 20]
      [] family = "cup_and_handle"     -> [op |-> "detect_cup_and_handle", window |-> 20]
      [] family = "flag_pennant"       -> [op |-> "detect_flag_pennant", window |-> 10]

\* C15: the output of detect_patterns holds at most one match per family, the
\* one the family's detector returns, which is of the second form (inverse,
\* bottom, flag) only when the first (standard, top, pennant) does not qualify;
\* detected_count = len(detected_patterns) = the number of family entries, in
\* 0..4, and every listed family is an entry with detected = true.
C15_OneMatchPerFamily ==
    /\ (call.op = "detect_patterns" /\ ret # NoCall) =>
          /\ ~IsRaised(ret)
          /\ "summary" \in DOMAIN ret
          /\ DOMAIN ret \ {"summary"} \subseteq Families
          /\ ret.summary.detected_count = Len(ret.summary.detected_patterns)
          /\ ret.summary.detected_count = Cardinality(DOMAIN ret \ {"summary"})
          /\ ret.summary.detected_count \in 0..4
          /\ { ret.summary.detected_patterns[m] :
                 m \in 1..Len(ret.summary.detected_patterns) } = DOMAIN ret \ {"summary"}
          /\ \A f \in Families :
                IF f \in DOMAIN ret
                  THEN /\ ret[f].detected
                       /\ ret[f] = DetectorResult(DefaultCall(f), df)
                       /\ ScannedInOrder(f, ret[f], df, DefaultCall(f).window)
                  ELSE ~DetectorResult(DefaultCall(f), df).detected
    /\ (call.op \in DetectorNames /\ ret # NoCall) =>
          ScannedInOrder(FamilyOf(call.op), ret, df, call.window)

\* detect_patterns found two families, one of them in its second form
C15_Witness ==
    /\ call.op = "detect_patterns" /\ ret # NoCall
    /\ ret.summary.detected_count = 2
    /\ \E f \in DOMAIN ret \ {"summary"} :
          /\ "pattern_type" \in DOMAIN ret[f]
          /\ ret[f].pattern_type \in {"double_bottom", "flag"}

\* the result r reports the standard form as the first qualifying triple of
\* peaks with the first trough of each gap, and reports it if any qualifies
HeadAndShouldersAsClaimed(r, x, peaks, troughs) ==
    /\ (r.detected /\ r.pattern_type = "head_and_shoulders") =>
          /\ QualifyingTriples(x, peaks, troughs) # {}
          /\ \E i \in 1..(Len(peaks) - 2) :
                /\ i = MinOf(QualifyingTriples(x, peaks, troughs))
                /\ r.positions.left_shoulder = peaks[i]
                /\ r.positions.head = peaks[i + 1]
                /\ r.positions.right_shoulder = peaks[i + 2]
          /\ r.positions.left_trough \in { troughs[m] : m \in 1..Len(troughs) }
          /\ r.positions.right_trough \in { troughs[m] : m \in 1..Len(troughs) }
          /\ r.positions.left_shoulder < r.positions.left_trough
          /\ r.positions.left_trough < r.positions.head
          /\ r.positions.head < r.positions.right_trough
          /\ r.positions.right_trough < r.positions.right_shoulder
          /\ At(x, r.positions.head) > At(x, r.positions.left_shoulder)
          /\ At(x, r.positions.head) > At(x, r.positions.right_shoulder)
          /\ Abs(At(x, r.positions.left_trough) - At(x, r.positions.right_trough)) * 100
                < 3 * At(x, r.positions.left_trough)
    /\ QualifyingTriples(x, peaks, troughs) # {}
          => (r.detected /\ r.pattern_type = "head_and_shoulders")

\* C20: whenever detect_head_and_shoulders reports head_and_shoulders, the
\* reported points are three consecutive peaks with left_shoulder < left_trough
\* < head < right_trough < right_shoulder, the head above both shoulders and
\* the two troughs less than 3% of the first apart; the triple is the
\* qualifying one with the lowest starting index, and the pattern is reported
\* whenever some consecutive peak triple qualifies.
C20_HeadAndShoulders ==
    (call.op = "detect_head_and_shoulders" /\ ret # NoCall) =>
        IF "Close" \in df.columns /\ call.window >= 1
          THEN HeadAndShouldersAsClaimed(ret, SmoothClose(df),
                    ScipyFindPeaks(SmoothClose(df), call.window).value,
                    ScipyFindPeaks(Negated(SmoothClose(df)), call.window).value)
          ELSE ~ret.detected

\* the first triple does not qualify, the third does and is reported
C20_Witness ==
    /\ call.op = "detect_head_and_shoulders" /\ ret # NoCall
    /\ df \in TwoHeadTables
    /\ ret.detected /\ ret.pattern_type = "head_and_shoulders"
    /\ ret.positions.left_shoulder > 20

\* the result r reports as kind (with the position names first, second,
\* middle) the first pair of consecutive extrema xs of x less than pct percent
\* of the first apart that has an extremum of the opposite kind ys between
DoublePatternAsClaimed(r, kind, first, second, middle, x, xs, ys, pct) ==
    (r.detected /\ r.pattern_type = kind) =>
        /\ QualifyingTops(x, xs, ys, pct) # {}
        /\ \E i \in 1..(Len(xs) - 1) :
              /\ i = MinOf(QualifyingTops(x, xs, ys, pct))
              /\ r.positions[first] = xs[i]
              /\ r.positions[second] = xs[i + 1]
        /\ Abs(At(x, r.positions[first]) - At(x, r.positions[second])) * 100
              < pct * At(x, r.positions[first])
        /\ r.positions[middle] \in { ys[m] : m \in 1..Len(ys) }
        /\ r.positions[first] < r.positions[middle]
        /\ r.positions[middle] < r.positions[second]
        /\ StrictlyBetween(ys, r.positions[first], r.positions[second]) # {}

\* C21: whenever detect_double_top_bottom reports double_top (double_bottom),
\* the two reported extrema are consecutive peaks (troughs) whose values differ
\* by less than 3% of the first, the reported middle trough (peak) lies
\* strictly between them, and the pair is the first qualifying pair in index
\* order; a pair with no extremum of the opposite kind strictly between is
\* never reported.
C21_DoubleTopBottom ==
    (call.op = "detect_double_top_bottom" /\ ret # NoCall /\ ret.detected) =>
        /\ ret.pattern_type \in {"double_top", "double_bottom"}
        /\ DoublePatternAsClaimed(ret, "double_top",
                "first_peak", "second_peak", "middle_trough", SmoothClose(df),
                ScipyFindPeaks(SmoothClose(df), call.window).value,
                ScipyFindPeaks(Negated(SmoothClose(df)), call.window).value, 3)
        /\ DoublePatternAsClaimed(ret, "double_bottom",
                "first_trough", "second_trough", "middle_peak", SmoothClose(df),
                ScipyFindPeaks(Negated(SmoothClose(df)), call.window).value,
                ScipyFindPeaks(SmoothClose(df), call.window).value, 3)

\* a double top whose first peak is not the first peak of the series: the
\* first pair of peaks does not qualify
C21_Witness ==
    /\ call.op = "detect_double_top_bottom" /\ ret # NoCall
    /\ ret.detected /\ ret.pattern_type = "double_top"
    /\ ret.positions.first_peak
          # ScipyFindPeaks(SmoothClose(df), call.window).value[1]

\* two consecutive peaks less than 3% apart with no trough between them, and
\* no double top reported
C21_NoTroughBetweenReached ==
    /\ call.op = "detect_double_top_bottom" /\ ret # NoCall
    /\ df \in TwoTopTables /\ call.window = 20
    /\ Len(ScipyFindPeaks(SmoothClose(df), 20).value) = 2
    /\ StrictlyBetween(ScipyFindPeaks(Negated(SmoothClose(df)), 20).value,
                       ScipyFindPeaks(SmoothClose(df), 20).value[1],
                       ScipyFindPeaks(SmoothClose(df), 20).value[2]) = {}
    /\ WithinPct(At(SmoothClose(df), ScipyFindPeaks(SmoothClose(df), 20).value[1]),
                 At(SmoothClose(df), ScipyFindPeaks(SmoothClose(df), 20).value[2]), 3)
    /\ ~(ret.detected /\ ret.pattern_type = "double_top")

\* a double bottom is reported
C21_BottomReached ==
    /\ call.op = "detect_double_top_bottom" /\ ret # NoCall
    /\ ret.detected /\ ret.pattern_type = "double_bottom"

\* the reported positions are a peak, a later trough, a later peak within 5%
\* of the first peak's height and a later trough less than 30% of the cup's
\* depth below the second peak, and the last smoothed close is above the
\* second peak
CupAndHandleAsClaimed(pos, x, peaks, troughs) ==
    /\ pos.cup_start \in { peaks[m] : m \in 1..Len(peaks) }
    /\ pos.cup_bottom \in { troughs[m] : m \in 1..Len(troughs) }
    /\ pos.cup_end \in { peaks[m] : m \in 1..Len(peaks) }
    /\ pos.handle_bottom \in { troughs[m] : m \in 1..Len(troughs) }
    /\ pos.cup_start < pos.cup_bottom
    /\ pos.cup_bottom < pos.cup_end
    /\ pos.cup_end < pos.handle_bottom
    /\ Abs(At(x, pos.cup_start) - At(x, pos.cup_end)) * 100 <= 5 * At(x, pos.cup_start)
    /\ (At(x, pos.cup_end) - At(x, pos.handle_bottom)) * 10
          < 3 * (At(x, pos.cup_start) - At(x, pos.cup_bottom))
    /\ x[Len(x)] > At(x, pos.cup_end)

C22_ShortCupReached ==
    /\ call.op = "detect_cup_and_handle" /\ ret # NoCall
    /\ df \in CupTables /\ BarCount(df) = 55 /\ call.window = 5
    /\ CupAndHandleIn(SmoothClose(df), call.window).detected
    /\ ~ret.detected

\* the table has at least 20 bars, its close moved by at least 5% of the close
\* 20 bars back, and the highs and lows of its last window bars span less than
\* half that move, relative to the lowest low
PoleAndConsolidation(d, rows, first, move) ==
    /\ BarCount(d) >= 20
    /\ first > 0
    /\ Abs(move) * 100 >= 5 * first
    /\ rows # {}
    /\ \A i \in rows : \A j \in rows :
          /\ LowAt(d, j) > 0
          /\ (\A k \in rows : LowAt(d, j) <= LowAt(d, k)) =>
                (HighAt(d, i) - LowAt(d, j)) * 2 * first < Abs(move) * LowAt(d, j)

\* C23: detect_flag_pennant reports detected only when the series has at
\* least 20 bars, the close-to-close move over the trailing 20 bars (the pole)
\* is at least 5% in magnitude, and the relative high-low range of the
\* trailing window bars is under 50% of the pole's magnitude; the reported
\* direction is bullish exactly when the pole move is upward and bearish
\* otherwise.
C23_FlagPennant ==
    (call.op = "detect_flag_pennant" /\ ret # NoCall /\ ret.detected) =>
        /\ PoleAndConsolidation(df, TailRows(df, call.window),
                                CloseAt(df, BarCount(df) - 20),
                                LastClose(df) - CloseAt(df, BarCount(df) - 20))
        /\ ret.direction \in {"bullish", "bearish"}
        /\ ret.direction = "bullish" <=> LastClose(df) > CloseAt(df, BarCount(df) - 20)

\* a pattern after a falling pole
C23_Witness ==
    /\ call.op = "detect_flag_pennant" /\ ret # NoCall
    /\ ret.detected /\ ret.direction = "bearish"

\* a pattern after a rising pole
C23_BullishReached ==
    /\ call.op = "detect_flag_pennant" /\ ret # NoCall
    /\ ret.detected /\ ret.direction = "bullish"

(***************************************************************************)
(* run: one request from entry to return                                   *)
(***************************************************************************)

\* except Exception as e: update_status("error"); return the error result
Except(message) ==
    /\ status' = "error"
    /\ ret' = [status |-> "error", message |-> message]
    /\ pc' = "returned"

\* self.update_status("running")
RunEnter ==
    /\ call.op = "run" /\ pc = "idle"
    /\ status' = "running"
    /\ pc' = "try"
    /\ UNCHANGED <<df, indicators, readings, analysis_results, signals, exc, call, ret,
                   patterns, cached_analysis, shared>>

\* the parameters of the request and the symbol check
RunCheckSymbol ==
    /\ call.op = "run" /\ pc = "try"
    /\ IF call.symbol = ""
         THEN /\ exc' = "ValueError"
              /\ Except("Symbol is required")
         ELSE /\ pc' = "fetch"
              /\ UNCHANGED <<exc, ret, status>>
    /\ UNCHANGED <<df, indicators, readings, analysis_results, signals, call,
                   patterns, cached_analysis, shared>>

\* await fetch_market_data and the conversion of its records to a table
RunFetch ==
    /\ call.op = "run" /\ pc = "fetch"
    /\ IF call.market.kind = "error"
         THEN /\ exc' = "ValueError"
              /\ Except("Error fetching market data")
              /\ UNCHANGED df
         ELSE IF BarCount(call.market.table) = 0
         THEN /\ exc' = "ValueError"
              /\ Except("No historical data available")
              /\ UNCHANGED df
         ELSE /\ df' = call.market.table
              /\ pc' = "start"
              /\ UNCHANGED <<exc, ret, status>>
    /\ UNCHANGED <<indicators, readings, analysis_results, signals, call,
                   patterns, cached_analysis, shared>>

\* an exception of analyze_data reaches the handler of run
RunFailed ==
    /\ call.op = "run" /\ pc = "failed"
    /\ Except(exc)
    /\ UNCHANGED <<df, indicators, readings, analysis_results, signals, exc, call,
                   patterns, cached_analysis, shared>>

\* patterns = {}; if "patterns" in indicators: patterns = await detect_patterns(df)
RunDetectPatterns ==
    /\ call.op = "run" /\ pc = "analyzed"
    /\ patterns' = IF "patterns" \in indicators THEN PatternsOf(df) ELSE EmptyDict
    /\ pc' = "patterned"
    /\ UNCHANGED <<df, indicators, readings, analysis_results, signals, exc, call, ret,
                   status, cached_analysis, shared>>

RunGenerateSignals ==
    /\ call.op = "run"
    /\ GenerateSignalsAt("patterned", "signalled")

\* the combined result (analysis_date, the time of the call, is left out)
ResultOf(symbol) ==
    [symbol |-> symbol, indicators |-> analysis_results, patterns |-> patterns,
     signals |-> signals]

\* a cache key without the symbol
CacheKey_no_symbol(c) == <<c.interval, c.period>>

\* cache_key = f"{symbol}_{interval}_{period}"
CacheKey(c) == <<c.symbol, c.interval, c.period>>

RunReturn ==
    /\ call.op = "run" /\ pc = "signalled"
    /\ cached_analysis' =
          [k \in DOMAIN cached_analysis \cup {CacheKey(call)} |->
              IF k = CacheKey(call) THEN ResultOf(call.symbol) ELSE cached_analysis[k]]
    /\ status' = "idle"
    /\ ret' = [status |-> "success", data |-> ResultOf(call.symbol)]
    /\ pc' = "returned"
    /\ UNCHANGED <<df, indicators, readings, analysis_results, signals, exc, call, patterns,
                   shared>>

NextRun ==
    \/ RunEnter \/ RunCheckSymbol \/ RunFetch \/ AnalyzeData \/ RunFailed
    \/ RunDetectPatterns \/ RunGenerateSignals \/ RunReturn

\* what the market data agent answers: an error, or the records of a table
Markets ==
    { [kind |-> "error"], [kind |-> "data", table |-> Table(StandardColumns, 1, <<>>, <<>>)] }
    \cup { [kind |-> "data", table |-> FlatTable(c, n)] :
             c \in { StandardColumns, StandardColumns \ {"Close"},
                     {"Date", "open", "high", "low", "close", "volume"} },
             n \in BarCounts }
    \cup { [kind |-> "data", table |-> t] :
             t \in { Table(StandardColumns, 10, <<100, 105, 100, 110, 100, 105, 100>>,
                           <<1, 1, 1, 1, 1, 1, 1>>),
                     Table(StandardColumns, 5, <<100, 100, 100, 111, 110>>,
                           <<1, 1, 1, 1, 1>>) } }

RunCalls ==
    { [op |-> "run", symbol |-> s, interval |-> "1d", period |-> p, market |-> m] :
        s \in {"", "AAPL"}, p \in {7, 100}, m \in Markets }

RunReadings ==
    { ReadingOf(ma, 50, <<3, 2>>, <<110, 90>>, <<50, 50>>, cloud, <<90, 1>>) :
        ma \in MaCases, cloud \in {<<102, 101, 95, 90>>, <<101, 102, 105, 110>>} }

InitRun ==
    /\ call \in RunCalls
    /\ indicators \in IndicatorSets
    /\ readings \in RunReadings
    /\ df = Table({}, 1, <<>>, <<>>)
    /\ analysis_results = EmptyDict
    /\ signals = EmptyDict
    /\ pc = "idle"
    /\ exc = "none"
    /\ ret = NoCall
    /\ patterns = EmptyDict
    /\ status = "idle"
    /\ cached_analysis = EmptyDict
    /\ tasks = <<>>
    /\ clock = 0
    /\ messages = 0
    /\ state_indicators = DefaultIndicators
    /\ market_cache = [cached_data |-> <<>>, last_cache_update |-> None]
    /\ workflow = NoWorkflow

SpecRun == InitRun /\ [][NextRun]_vars

Returned_from_run == call.op = "run" /\ pc = "returned"

\* the request names no symbol, the fetch failed or gave no rows, or a required
\* field is in the table under neither spelling
BadInput(c) ==
    \/ c.symbol = ""
    \/ c.market.kind = "error"
    \/ BarCount(c.market.table) = 0
    \/ AbsentCapOrLower(c.market.table.columns) # {}

\* C7: run does not raise and its outcome is binary: a total failure (status
\* "error", a message, no indicators, patterns or signals) or a success whose
\* data holds indicators, patterns and signals; an empty symbol, a fetch
\* error, an empty history or a missing required field give the failure, and
\* every other request, a series too short for some indicator or pattern
\* included, gives the success.
C7_BinaryOutcome ==
    Returned_from_run =>
        /\ ret.status \in {"error", "success"}
        /\ ret.status = "error" => DOMAIN ret = {"status", "message"}
        /\ ret.status = "success" =>
              /\ DOMAIN ret = {"status", "data"}
              /\ {"indicators", "patterns", "signals"} \subseteq DOMAIN ret.data
        /\ BadInput(call) <=> ret.status = "error"

\* run returned a success for a series too short for every window
C7_ShortSeriesSuccess ==
    ~(Returned_from_run /\ BarCount(df) = 5 /\ ret.status = "success")

\* the cases of C7 other than the too short series with the ATR requested
C7_ExceptShortAtr ==
    (Returned_from_run /\ ~(call.symbol # "" /\ call.market.kind = "data"
                              /\ "atr" \in indicators
                              /\ AtrRaises(BarCount(call.market.table)))) =>
        (BadInput(call) <=> ret.status = "error")

(***************************************************************************)
(* The relative strength index: ta.momentum.RSIIndicator(close, window=14) *)
(* over tables with one close per bar.                                     *)
(***************************************************************************)

\* diff > 0 somewhere, diff < 0 somewhere
HasGain(close) == \E m \in 1..(Len(close) - 1) : close[m + 1] > close[m]
HasLoss(close) == \E m \in 1..(Len(close) - 1) : close[m + 1] < close[m]

\* the index with the zero average loss left to the division
RSIIndicator_plain_division(close) ==
    IF Len(close) < 14 THEN {NaN}
    ELSE IF ~HasLoss(close) THEN {NaN}
    ELSE IF ~HasGain(close) THEN {0}
    ELSE {25, 50, 75}

\* rsi().iloc[-1]: the smoothed gains and losses (ewm, alpha 1/14, at least 14
\* rows) are zero exactly when there is no gain, no loss; np.where(emadn == 0,
\* 100, 100 - 100 / (1 + emaup / emadn)).  With gains and losses both the
\* value lies strictly between 0 and 100: any of three such values
RSIIndicator(close) ==
    IF Len(close) < 14 THEN {NaN}
    ELSE IF ~HasLoss(close) THEN {100}
    ELSE IF ~HasGain(close) THEN {0}
    ELSE {25, 50, 75}

\* the longest close series of the tables
MaxBars == 16

\* closes that rise or fall by k at every bar, constant closes, and closes that
\* rise or fall at every bar but step back once, at bar j
RsiSeries(n) ==
    { [m \in 1..n |-> 100 + k * m] : k \in {-2, -1, 0, 1, 2} }
    \cup { [m \in 1..n |-> IF m = j THEN 100 + k * (m - 2) ELSE 100 + k * m] :
             k \in {-1, 1}, j \in 2..n }

RsiTables ==
    { Table(StandardColumns, 1, c, [m \in 1..Len(c) |-> 1]) :
        c \in UNION { RsiSeries(n) : n \in 13..MaxBars } }

InitRsi ==
    /\ df \in RsiTables
    /\ indicators \in { {"rsi"}, BasicIndicators, {"rsi", "atr", "stochastic"} }
    /\ readings \in
          { [ReadingOf(<<90, 90>>, 50, <<3, 2>>, <<110, 90>>, <<50, 50>>,
                       <<102, 101, 95, 90>>, <<90, 1>>) EXCEPT !.rsi_14 = v] :
              v \in RSIIndicator(df.close) }
    /\ analysis_results = EmptyDict
    /\ signals = EmptyDict
    /\ pc = "start"
    /\ exc = "none"
    /\ call = NoCall
    /\ ret = NoCall
    /\ patterns = EmptyDict
    /\ status = "idle"
    /\ cached_analysis = EmptyDict
    /\ tasks = <<>>
    /\ clock = 0
    /\ messages = 0
    /\ state_indicators = DefaultIndicators
    /\ market_cache = [cached_data |-> <<>>, last_cache_update |-> None]
    /\ workflow = NoWorkflow

SpecRsi == InitRsi /\ [][NextAnalysis]_vars

StrictlyIncreasing(close) == \A m \in 1..(Len(close) - 1) : close[m + 1] > close[m]
StrictlyDecreasing(close) == \A m \in 1..(Len(close) - 1) : close[m + 1] < close[m]

InsideWindows(data, w) == { i \in 0..(Len(data) - 1) : i - w >= 0 /\ i + w <= Len(data) - 1 }

WindowValues(data, i, w) == { At(data, j) : j \in (i - w)..(i + w) }

\* C17: _find_peaks returns, in increasing order, exactly the indices whose
\* window [i - W, i + W] lies inside the array and whose value equals the
\* maximum of that window, tied maxima included; _find_troughs the same with
\* the minimum.
C17_ExactExtrema ==
    (call.op \in {"_find_peaks", "_find_troughs"} /\ ret # NoCall) =>
        /\ ~ret.raised
        /\ ret.value = Ascending(
              { i \in InsideWindows(call.data, call.window) :
                  At(call.data, i) =
                     IF call.op = "_find_peaks"
                       THEN MaxOf(WindowValues(call.data, i, call.window))
                       ELSE MinOf(WindowValues(call.data, i, call.window)) })

\* two tied maxima of one window, both reported
C17_Witness ==
    /\ call.op = "_find_peaks" /\ ret # NoCall /\ call.window = 1
    /\ call.data = <<1, 2, 2, 1>>
    /\ ret.value = <<1, 2>>

\* df["High"].values, df["Low"].values
HighPrices(d) == [m \in 1..BarCount(d) |-> HighAt(d, m - 1)]
LowPrices(d)  == [m \in 1..BarCount(d) |-> LowAt(d, m - 1)]

\* [prices[i] for i in found]
ValuesAt(prices, found) == [k \in 1..Len(found) |-> At(prices, found[k])]

\* the levels left in the order they were found
Sorted_not(levels) == levels

\* list.sort()
Sorted(levels) == SortSeq(levels, LAMBDA a, b : a < b)

\* return [], [] of the handler
Sentinel == [support |-> <<>>, resistance |-> <<>>]

\* _calculate_support_resistance without its try/except
SupportResistanceHandler_not(r) == r

\* except Exception: log the error and return [], []
SupportResistanceHandler(r) == IF IsRaised(r) THEN Sentinel ELSE r

\* the body of the try block, given what _find_peaks and _find_troughs found
SupportResistanceFrom(d, highs, lows) ==
    IF highs.raised THEN highs
    ELSE IF lows.raised THEN lows
    ELSE [support    |-> Sorted(filter_levels(ValuesAt(LowPrices(d), lows.value), 1)),
          resistance |-> Sorted(filter_levels(ValuesAt(HighPrices(d), highs.value), 1))]

SupportResistanceBody(d, window) ==
    IF ~({"Close", "High", "Low"} \subseteq d.columns) THEN Raised("KeyError")
    ELSE SupportResistanceFrom(d, find_peaks(HighPrices(d), window),
                               find_troughs(LowPrices(d), window))

calculate_support_resistance(d, window) ==
    SupportResistanceHandler(SupportResistanceBody(d, window))

CalculateSupportResistance ==
    /\ call.op = "_calculate_support_resistance" /\ ret = NoCall
    /\ ret' = calculate_support_resistance(df, call.window)
    /\ UNCHANGED <<df, indicators, readings, analysis_results, signals, pc, exc, call, agent>>

\* prices in hundredths, 0 included (101.01 is more than 1% of 100 above 100
\* and less than 1% of 101.01): 36 bars in nine runs of four, the outer runs
\* at one price, the third and the seventh run free, the runs between at one
\* price; high = low = close, or high and low 0.5 away from the close
SupportPrices == {0, 10000, 10050, 10101, 10300}

SupportTables ==
    { Table(StandardColumns, 4, <<e, e, a, c, c, c, b, e, e>>, [m \in 1..9 |-> sp]) :
        e \in SupportPrices, a \in SupportPrices, c \in SupportPrices,
        b \in SupportPrices, sp \in {0, 50} }
    \cup { Table(StandardColumns \ {col}, 4, <<10000, 10000, 10300, 10000, 10000, 10000>>,
                 [m \in 1..6 |-> 50]) : col \in {"Close", "High", "Low"} }
    \cup { Table(StandardColumns, n, <<10000>>, <<50>>) : n \in {1, 20, 21} }
    \cup { Table(StandardColumns, 1, <<>>, <<>>) }

InitSupport ==
    /\ df \in SupportTables
    /\ call = [op |-> "_calculate_support_resistance", window |-> 10]
    /\ indicators = {}
    /\ readings = ReadingOf(<<90, 90>>, 50, <<3, 2>>, <<110, 90>>, <<50, 50>>,
                            <<102, 101, 95, 90>>, <<90, 1>>)
    /\ analysis_results = EmptyDict
    /\ signals = EmptyDict
    /\ pc = "idle"
    /\ exc = "none"
    /\ ret = NoCall
    /\ patterns = EmptyDict
    /\ status = "idle"
    /\ cached_analysis = EmptyDict
    /\ tasks = <<>>
    /\ clock = 0
    /\ messages = 0
    /\ state_indicators = DefaultIndicators
    /\ market_cache = [cached_data |-> <<>>, last_cache_update |-> None]
    /\ workflow = NoWorkflow

SpecSupport == InitSupport /\ [][CalculateSupportResistance]_vars

\* the values of the high series at its peaks, of the low series at its troughs
PeakHighs(d, w) ==
    { At(HighPrices(d), i) : i \in
        { j \in InsideWindows(HighPrices(d), w) :
            At(HighPrices(d), j) = MaxOf(WindowValues(HighPrices(d), j, w)) } }

TroughLows(d, w) ==
    { At(LowPrices(d), i) : i \in
        { j \in InsideWindows(LowPrices(d), w) :
            At(LowPrices(d), j) = MinOf(WindowValues(LowPrices(d), j, w)) } }

\* each of a and b is no more than 1% of the other away from it
WithinOnePctOfEachOther(a, b) ==
    /\ Abs(a - b) * 100 <= Abs(a)
    /\ Abs(a - b) * 100 <= Abs(b)

SortedSeparated(levels) ==
    \A m \in 1..Len(levels) : \A n \in 1..Len(levels) :
        m < n => /\ levels[m] <= levels[n]
                 /\ ~WithinOnePctOfEachOther(levels[m], levels[n])

SupportResistanceReturned == call.op = "_calculate_support_resistance" /\ ret # NoCall

\* C18: both lists _calculate_support_resistance returns are sorted ascending,
\* every resistance level is the high at a peak of the high series and every
\* support level the low at a trough of the low series (window 10), and no two
\* levels of one list lie within 1% of each other.
C18_LevelsSortedSeparated ==
    SupportResistanceReturned =>
        /\ ~IsRaised(ret)
        /\ SortedSeparated(ret.support)
        /\ SortedSeparated(ret.resistance)
        /\ \A m \in 1..Len(ret.resistance) : ret.resistance[m] \in PeakHighs(df, call.window)
        /\ \A m \in 1..Len(ret.support) : ret.support[m] \in TroughLows(df, call.window)

\* two support levels, the second more than 1% of the first above it
C18_Witness ==
    /\ SupportResistanceReturned
    /\ ret.support = <<10000, 10101>>
    /\ ret.resistance # <<>>

HasAllColumns(d) == {"Close", "High", "Low"} \subseteq d.columns

\* C19 as stated: _calculate_support_resistance does not raise, and when a
\* candidate level is 0 or an internal failure occurs it returns the fixed
\* sentinel, the pair of empty lists.
C19_Original ==
    SupportResistanceReturned =>
        /\ ~IsRaised(ret)
        /\ ~HasAllColumns(df) => ret = Sentinel
        /\ (HasAllColumns(df)
              /\ 0 \in PeakHighs(df, call.window) \cup TroughLows(df, call.window))
             => ret = Sentinel

\* C19: _calculate_support_resistance does not raise; an internal failure (a
\* missing High, Low or Close column) gives the fixed sentinel, the pair of
\* empty lists; a candidate level of 0 is no failure: each list is empty only
\* when it has no candidate, and a 0 that is the first candidate is kept.
C19_NeverRaises ==
    SupportResistanceReturned =>
        /\ ~IsRaised(ret)
        /\ DOMAIN ret = {"support", "resistance"}
        /\ ~HasAllColumns(df) => ret = Sentinel
        /\ HasAllColumns(df) =>
              /\ (ret.resistance = <<>>) <=> (PeakHighs(df, call.window) = {})
              /\ (ret.support = <<>>) <=> (TroughLows(df, call.window) = {})
              /\ (BarCount(df) > 2 * call.window /\ At(LowPrices(df), call.window) = 0
                     /\ 0 \in TroughLows(df, call.window))
                    => (ret.support # <<>> /\ ret.support[1] = 0)

C19_Witness ==
    /\ SupportResistanceReturned /\ HasAllColumns(df)
    /\ 0 \in TroughLows(df, call.window)
    /\ ret.support = <<0, 10000>>
    /\ ret.resistance # <<>>

(***************************************************************************)
(* Calls that share one agent.  Each call of run or process is a task with *)
(* its own local variables; self.state (status, messages, cached_analysis) *)
(* is shared.  A task may be overtaken by another at each of its steps,    *)
(* which are cut at the await points of run and process.                   *)
(***************************************************************************)

\* the values pandas/ta compute from a table, were their windows anchored at
\* the time of the call instead of at the last bar
LibraryReadings_by_date(table) ==
    IF BarCount(table) - clock \div 36 < 60
      THEN ReadingOf(<<90, 90>>, 50, <<3, 2>>, <<110, 90>>, <<50, 50>>,
                     <<102, 101, 95, 90>>, <<90, 1>>)
      ELSE ReadingOf(<<110, 110>>, 75, <<2, 3>>, <<95, 85>>, <<90, 50>>,
                     <<101, 102, 105, 110>>, <<110, 0>>)

\* the values pandas/ta compute from a table: a function of its bars alone
LibraryReadings(table) ==
    IF BarCount(table) < 60
      THEN ReadingOf(<<90, 90>>, 50, <<3, 2>>, <<110, 90>>, <<50, 50>>,
                     <<102, 101, 95, 90>>, <<90, 1>>)
      ELSE ReadingOf(<<110, 110>>, 75, <<2, 3>>, <<95, 85>>, <<90, 50>>,
                     <<101, 102, 105, 110>>, <<110, 0>>)

\* run: input_data.get("indicators", self.state.indicators);
\* process: self.state.indicators for "all", else the basic ones
TaskIndicators(task) ==
    IF task.requested = "default" THEN state_indicators ELSE BasicIndicators

\* where a task goes when its run has returned
AfterRun(task) == IF task.kind = "process" THEN "ran" ELSE "returned"

ErrorResult(message) == [status |-> "error", message |-> message]

\* a handler that returns the error without update_status("error")
TaskExcept_no_status(t, message) ==
    /\ status' = status
    /\ messages' = messages + 1
    /\ tasks' = [tasks EXCEPT ![t] =
                    [@ EXCEPT !.pc = AfterRun(tasks[t]), !.ret = ErrorResult(message)]]
    /\ UNCHANGED <<cached_analysis, clock>>

\* the handler of run in task t: update_status("error"), one message, the result
TaskExcept(t, message) ==
    /\ status' = "error"
    /\ messages' = messages + 1
    /\ tasks' = [tasks EXCEPT ![t] =
                    [@ EXCEPT !.pc = AfterRun(tasks[t]), !.ret = ErrorResult(message)]]
    /\ UNCHANGED <<cached_analysis, clock>>

\* process up to its call of run
ProcessStart(t) ==
    /\ tasks[t].pc = "process"
    /\ IF tasks[t].symbol = ""
         THEN /\ status' = "idle"
              /\ messages' = messages + 2
              /\ tasks' = [tasks EXCEPT ![t] =
                    [@ EXCEPT !.pc = "returned",
                              !.ret = ErrorResult("No stock symbol found in query"),
                              !.later = \E u \in DOMAIN tasks : tasks[u].pc = "returned"]]
         ELSE /\ status' = "processing"
              /\ messages' = messages + 1
              /\ tasks' = [tasks EXCEPT ![t] =
                    [@ EXCEPT !.pc = "run",
                              !.later = \E u \in DOMAIN tasks : tasks[u].pc = "returned"]]
    /\ UNCHANGED <<cached_analysis, clock>>
    /\ UNCHANGED market_cache

\* run up to its call of fetch_market_data
TaskStart(t) ==
    /\ tasks[t].pc = "run"
    /\ IF tasks[t].symbol = ""
         THEN TaskExcept(t, "Symbol is required")
         ELSE /\ status' = "running"
              /\ messages' = messages + 1
              /\ tasks' = [tasks EXCEPT ![t] =
                    [@ EXCEPT !.pc = "fetch",
                              !.indicators = TaskIndicators(tasks[t]),
                              !.later = IF tasks[t].kind = "process" THEN @
                                        ELSE \E u \in DOMAIN tasks :
                                                tasks[u].pc = "returned"]]
              /\ UNCHANGED <<cached_analysis, clock>>
    /\ UNCHANGED market_cache

\* the messages run adds once it has a table: one, and a warning when an
\* advanced indicator is requested on fewer than 60 bars
MessagesAtTable(requested, table) ==
    IF requested \cap {"patterns", "ichimoku", "fibonacci"} # {} /\ BarCount(table) < 60
      THEN 2 ELSE 1

\* cache_duration of the market data agent, in seconds
cache_duration == 3600

\* cache_key of fetch_market_data: symbol, start_date, end_date, interval and
\* market; the two dates are the day of the call and that day less the period
MarketKey(task) == <<task.symbol, task.period, task.interval>>

\* a cache entry passes for fresh by the time of the last store of any entry
CacheHit(task) ==
    /\ MarketKey(task) \in DOMAIN market_cache.cached_data
    /\ market_cache.last_cache_update # None
    /\ clock - market_cache.last_cache_update < cache_duration

\* run after fetch_market_data answered: the error, or the table and messages
TaskAnswered(t, answer, stored) ==
    IF answer.kind = "error"
      THEN /\ TaskExcept(t, "Error fetching market data")
           /\ market_cache' = stored
    ELSE IF BarCount(answer.table) = 0
      THEN /\ TaskExcept(t, "No historical data available")
           /\ market_cache' = stored
    ELSE /\ messages' = messages + MessagesAtTable(tasks[t].indicators, answer.table)
         /\ tasks' = [tasks EXCEPT ![t] =
               [@ EXCEPT !.pc = "start", !.df = answer.table, !.answer = answer,
                         !.checked_at = clock]]
         /\ market_cache' = stored
         /\ UNCHANGED <<status, cached_analysis, clock>>

\* fetch_market_data up to its first await: the cached answer, if it passes
TaskFetch(t) ==
    /\ tasks[t].pc = "fetch"
    /\ IF CacheHit(tasks[t])
         THEN TaskAnswered(t, market_cache.cached_data[MarketKey(tasks[t])], market_cache)
         ELSE /\ tasks' = [tasks EXCEPT ![t] =
                    [@ EXCEPT !.pc = "provider", !.checked_at = clock]]
              /\ UNCHANGED <<status, cached_analysis, clock, messages, market_cache>>

\* the provider's answer: stored with the time of the store unless an error
TaskProvider(t) ==
    /\ tasks[t].pc = "provider"
    /\ TaskAnswered(t, tasks[t].market,
          IF tasks[t].market.kind = "error" THEN market_cache
          ELSE [cached_data |->
                  [k \in DOMAIN market_cache.cached_data \cup {MarketKey(tasks[t])} |->
                      IF k = MarketKey(tasks[t]) THEN tasks[t].market
                      ELSE market_cache.cached_data[k]],
                last_cache_update |-> clock])

TaskAnalyzeWith(t, outcome) ==
    IF outcome.pc = "failed"
      THEN TaskExcept(t, outcome.exc)
      ELSE /\ tasks' = [tasks EXCEPT ![t] =
                 [@ EXCEPT !.pc = "analyzed", !.df = outcome.df,
                           !.analysis_results = outcome.analysis_results]]
           /\ UNCHANGED <<status, cached_analysis, clock, messages>>

\* await analyze_data(df, indicators)
TaskAnalyze(t) ==
    /\ tasks[t].pc = "start"
    /\ TaskAnalyzeWith(t, AnalyzeOutcome(tasks[t].df, LibraryReadings(tasks[t].df),
                                         tasks[t].indicators))
    /\ UNCHANGED market_cache

\* await detect_patterns(df), if requested
TaskPatterns(t) ==
    /\ tasks[t].pc = "analyzed"
    /\ IF "patterns" \in tasks[t].indicators
         THEN /\ messages' = messages + 1
              /\ tasks' = [tasks EXCEPT ![t] =
                    [@ EXCEPT !.pc = "patterned", !.patterns = PatternsOf(tasks[t].df)]]
         ELSE /\ messages' = messages
              /\ tasks' = [tasks EXCEPT ![t] = [@ EXCEPT !.pc = "patterned"]]
    /\ UNCHANGED <<status, cached_analysis, clock>>
    /\ UNCHANGED market_cache

\* await generate_signals(df, analysis_results)
TaskSignals(t) ==
    /\ tasks[t].pc = "patterned"
    /\ messages' = messages + 1
    /\ tasks' = [tasks EXCEPT ![t] =
          [@ EXCEPT !.pc = "signalled",
                    !.signals = SignalsOf(LastClose(tasks[t].df),
                                          tasks[t].analysis_results)]]
    /\ UNCHANGED <<status, cached_analysis, clock>>
    /\ UNCHANGED market_cache

\* the combined result, stamped with the time of the call
TaskResult(task, now) ==
    [symbol |-> task.symbol, analysis_date |-> now,
     indicators |-> task.analysis_results, patterns |-> task.patterns,
     signals |-> task.signals]

\* a return that answers from the cache when the key is there
TaskReturnAt_cached(t, now) ==
    /\ clock' = now
    /\ cached_analysis' =
          IF CacheKey(tasks[t]) \in DOMAIN cached_analysis THEN cached_analysis
          ELSE [k \in DOMAIN cached_analysis \cup {CacheKey(tasks[t])} |->
                  IF k = CacheKey(tasks[t]) THEN TaskResult(tasks[t], now)
                  ELSE cached_analysis[k]]
    /\ status' = "idle"
    /\ tasks' = [tasks EXCEPT ![t] =
          [@ EXCEPT !.pc = AfterRun(tasks[t]),
                    !.ret = [status |-> "success",
                             data |-> IF CacheKey(tasks[t]) \in DOMAIN cached_analysis
                                        THEN cached_analysis[CacheKey(tasks[t])]
                                        ELSE TaskResult(tasks[t], now)]]]
    /\ UNCHANGED messages

TaskReturnAt(t, now) ==
    /\ clock' = now
    /\ cached_analysis' =
          [k \in DOMAIN cached_analysis \cup {CacheKey(tasks[t])} |->
              IF k = CacheKey(tasks[t]) THEN TaskResult(tasks[t], now)
              ELSE cached_analysis[k]]
    /\ status' = "idle"
    /\ tasks' = [tasks EXCEPT ![t] =
          [@ EXCEPT !.pc = AfterRun(tasks[t]),
                    !.ret = [status |-> "success", data |-> TaskResult(tasks[t], now)]]]
    /\ UNCHANGED messages

\* result, cache, status and return of run; datetime.now() does not go back
TaskReturn(t) ==
    /\ tasks[t].pc = "signalled"
    /\ \E now \in {clock, clock + cache_duration} : TaskReturnAt(t, now)
    /\ UNCHANGED market_cache

\* process after its run returned
ProcessFinish(t) ==
    /\ tasks[t].pc = "ran"
    /\ messages' = messages + 1
    /\ status' = "idle"
    /\ tasks' = [tasks EXCEPT ![t] = [@ EXCEPT !.pc = "returned"]]
    /\ UNCHANGED <<cached_analysis, clock>>
    /\ UNCHANGED market_cache

TaskStep(t) ==
    \/ ProcessStart(t) \/ TaskStart(t) \/ TaskFetch(t) \/ TaskProvider(t) \/ TaskAnalyze(t)
    \/ TaskPatterns(t) \/ TaskSignals(t) \/ TaskReturn(t) \/ ProcessFinish(t)

NextAgent ==
    /\ \E t \in DOMAIN tasks : TaskStep(t)
    /\ UNCHANGED <<df, indicators, readings, analysis_results, signals, pc, exc, call, ret,
                   patterns, state_indicators, workflow>>

\* what fetch_market_data answers: an error, too few bars for the average
\* true range, a long flat table, the head-and-shoulders series
AgentMarkets ==
    { [kind |-> "error"],
      [kind |-> "data", table |-> FlatTable(StandardColumns, 5)],
      [kind |-> "data", table |-> FlatTable(StandardColumns, 250)],
      [kind |-> "data", table |-> Table(StandardColumns, 5,
                                        <<900, 950, 1000, 950, 1100, 955, 1000, 900>>,
                                        [m \in 1..8 |-> 5])] }

AgentSymbols == {"AAPL", "MSFT"}

\* a call of run or of process before its first statement
NewTask(kind, symbol, requested, market, found) ==
    [kind |-> kind, symbol |-> symbol, interval |-> "1d", period |-> 100,
     requested |-> requested, market |-> market,
     pc |-> IF kind = "process" THEN "process" ELSE "run", later |-> FALSE,
     indicators |-> {}, df |-> Table({}, 1, <<>>, <<>>),
     analysis_results |-> EmptyDict, patterns |-> EmptyDict, signals |-> EmptyDict,
     found |-> found, checked_at |-> 0, answer |-> [kind |-> "none"], ret |-> NoCall]

\* the calls issued to an agent whose market data cache is found
AgentCalls(found) ==
    { NewTask("run", s, r, m, found) :
        s \in AgentSymbols, r \in {"default", "basic"}, m \in AgentMarkets }
    \cup { NewTask("process", s, "default", m, found) :
        s \in AgentSymbols,
        m \in {k \in AgentMarkets : k.kind = "data" => BarCount(k.table) >= 14} }
    \cup { NewTask(k, "", "basic", [kind |-> "error"], found) : k \in {"run", "process"} }

\* the cache of the market data agent as the calls find it: empty, or with
\* bars of AAPL stored cache_duration seconds ago
MarketCaches ==
    { [cached_data |-> <<>>, last_cache_update |-> None],
      [cached_data |-> [k \in {<<"AAPL", 100, "1d">>} |->
                          [kind |-> "data", table |-> FlatTable(StandardColumns, 60)]],
       last_cache_update |-> 0] }

InitAgent ==
    /\ market_cache \in MarketCaches
    /\ workflow = NoWorkflow
    /\ tasks \in [1..2 -> AgentCalls(market_cache)]
    /\ status = "idle"
    /\ cached_analysis = EmptyDict
    /\ clock = cache_duration
    /\ messages = 0
    /\ state_indicators = DefaultIndicators
    /\ df = Table({}, 1, <<>>, <<>>)
    /\ indicators = {}
    /\ readings = ReadingOf(<<90, 90>>, 50, <<3, 2>>, <<110, 90>>, <<50, 50>>,
                            <<102, 101, 95, 90>>, <<90, 1>>)
    /\ analysis_results = EmptyDict
    /\ signals = EmptyDict
    /\ pc = "idle"
    /\ exc = "none"
    /\ call = NoCall
    /\ ret = NoCall
    /\ patterns = EmptyDict

SpecAgent == InitAgent /\ [][NextAgent]_vars

\* two calls with the same request that got the same answer of fetch_market_data
SameRequest(a, b) ==
    /\ a.kind = b.kind /\ a.symbol = b.symbol /\ a.requested = b.requested
    /\ a.interval = b.interval /\ a.period = b.period /\ a.answer = b.answer

BothReturned == tasks[1].pc = "returned" /\ tasks[2].pc = "returned"

\* a result with the time of its call blanked
WithoutDate(r) ==
    IF r.status = "success" THEN [r EXCEPT !.data.analysis_date = 0] ELSE r

FreshAnalysed(task, requested, outcome, now) ==
    IF outcome.pc = "failed" THEN ErrorResult(outcome.exc)
    ELSE [status |-> "success",
          data |-> [symbol |-> task.symbol, analysis_date |-> now,
                    indicators |-> outcome.analysis_results,
                    patterns |-> IF "patterns" \in requested
                                   THEN PatternsOf(outcome.df) ELSE EmptyDict,
                    signals |-> SignalsOf(LastClose(outcome.df),
                                          outcome.analysis_results)]]

FreshRequested(task) ==
    IF task.requested = "default" THEN DefaultIndicators ELSE BasicIndicators

FreshResult(task, answer, now) ==
    IF task.symbol = ""
      THEN IF task.kind = "process"
             THEN ErrorResult("No stock symbol found in query")
             ELSE ErrorResult("Symbol is required")
    ELSE IF answer.kind # "data" THEN ErrorResult("Error fetching market data")
    ELSE IF BarCount(answer.table) = 0
      THEN ErrorResult("No historical data available")
    ELSE FreshAnalysed(task, FreshRequested(task),
                       AnalyzeOutcome(answer.table, LibraryReadings(answer.table),
                                      FreshRequested(task)), now)

\* what fetch_market_data answers a call when no other call has touched the
\* cache the call found
AloneAnswer(task) ==
    IF /\ MarketKey(task) \in DOMAIN task.found.cached_data
       /\ task.found.last_cache_update # None
       /\ task.checked_at - task.found.last_cache_update < cache_duration
      THEN task.found.cached_data[MarketKey(task)]
      ELSE task.market

\* the time a result was made at
DateOf(r) == IF r.status = "success" THEN r.data.analysis_date ELSE 0

\* C12 as stated: once a call of run or process has returned, the agent holds
\* no state produced by it: no cached result, no message, the initial status.
C12_Original ==
    (\E t \in DOMAIN tasks : tasks[t].pc = "returned")
        => (cached_analysis = EmptyDict /\ messages = 0 /\ status = "idle")

\* C12: run and process leave the indicator list as it was; a returned call
\* has left messages, a successful one its result in the cache; and a call
\* begun after another returned returns what it would on a fresh agent.
C12_RetainedNotObserved ==
    /\ state_indicators = DefaultIndicators
    /\ \A t \in DOMAIN tasks : tasks[t].pc = "returned" =>
          /\ messages > 0
          /\ tasks[t].ret.status = "success"
                => CacheKey(tasks[t]) \in DOMAIN cached_analysis
          /\ tasks[t].later
                => tasks[t].ret = FreshResult(tasks[t], tasks[t].answer,
                                              DateOf(tasks[t].ret))

C12_Witness ==
    /\ BothReturned /\ tasks[2].later
    /\ CacheKey(tasks[1]) = CacheKey(tasks[2])
    /\ tasks[1].ret.status = "success" /\ tasks[2].ret.status = "success"
    /\ WithoutDate(tasks[1].ret) # WithoutDate(tasks[2].ret)
    /\ cached_analysis[CacheKey(tasks[2])] = tasks[2].ret.data
    /\ messages > 4

\* C14: of two calls of run for different instruments on one agent, interleaved
\* in any order, each returns what it would return were it executed alone.
C14_ConcurrentRunsIsolated ==
    (/\ tasks[1].kind = "run" /\ tasks[2].kind = "run"
     /\ tasks[1].symbol # tasks[2].symbol)
    => \A t \in DOMAIN tasks : tasks[t].pc = "returned" =>
          tasks[t].ret = FreshResult(tasks[t], AloneAnswer(tasks[t]),
                                     DateOf(tasks[t].ret))

\* the same with the answer of fetch_market_data taken as it came
C14_IsolatedGivenAnswer ==
    (/\ tasks[1].kind = "run" /\ tasks[2].kind = "run"
     /\ tasks[1].symbol # tasks[2].symbol)
    => \A t \in DOMAIN tasks : tasks[t].pc = "returned" =>
          /\ tasks[t].ret = FreshResult(tasks[t], tasks[t].answer, DateOf(tasks[t].ret))
          /\ tasks[t].ret.status = "success"
                => /\ tasks[t].ret.data.symbol = tasks[t].symbol
                   /\ CacheKey(tasks[t]) \in DOMAIN cached_analysis
                   /\ cached_analysis[CacheKey(tasks[t])] = tasks[t].ret.data

C14_Witness ==
    /\ tasks[1].kind = "run" /\ tasks[2].kind = "run"
    /\ tasks[1].symbol # tasks[2].symbol
    /\ BothReturned /\ ~tasks[1].later /\ ~tasks[2].later
    /\ tasks[1].ret.status = "success" /\ tasks[2].ret.status = "success"
    /\ tasks[1].ret.data.signals # tasks[2].ret.data.signals
    /\ tasks[1].ret.data.patterns # tasks[2].ret.data.patterns

(***************************************************************************)
(* The status of the agent over the calls of run                           *)
(***************************************************************************)

\* this step is the entry of run in task t, the return of run in task t
RunEntered(t) == tasks[t].pc = "run" /\ tasks'[t].pc # "run"
RunReturned(t) ==
    /\ tasks[t].pc # "process"
    /\ tasks[t].ret = NoCall /\ tasks'[t].ret # NoCall

\* C28: run sets the status to "running" on entry, and once run has returned
\* the status is "idle" if and only if it returned a success result and
\* "error" if and only if it returned an error result; the status is never
\* left at "running" after run returns, whichever step failed.
C28_StatusLifecycle ==
    [][\A t \in DOMAIN tasks :
          /\ (RunEntered(t) /\ ~RunReturned(t)) => status' = "running"
          /\ RunReturned(t) =>
                /\ tasks'[t].ret.status \in {"success", "error"}
                /\ status' = "idle" <=> tasks'[t].ret.status = "success"
                /\ status' = "error" <=> tasks'[t].ret.status = "error"
          /\ (\A u \in DOMAIN tasks : tasks'[u].pc = "returned") => status' # "running"]_vars

\* a run that failed in analyze_data, after its table was fetched, left the
\* status at "error"
C28_Witness ==
    \E t \in DOMAIN tasks :
        /\ tasks[t].kind = "run" /\ tasks[t].pc = "returned"
        /\ tasks[t].ret.status = "error"
        /\ BarCount(tasks[t].df) > 0
        /\ status = "error"

\* a run returned a success and left the status at "idle"
C28_SuccessReached ==
    \E t \in DOMAIN tasks :
        /\ tasks[t].kind = "run" /\ tasks[t].pc = "returned"
        /\ tasks[t].ret.status = "success"
        /\ status = "idle"

(***************************************************************************)
(* The orchestrator: the router, then _run_agent and _determine_next_agent *)
(* in turn until "end"                                                     *)
(***************************************************************************)

\* self.agents, in the order of the sequential execution
AgentNames ==
    <<"market_data", "news_sentiment", "technical_analysis", "risk_assessment",
      "report_generation">>

AgentSet == { AgentNames[m] : m \in 1..Len(AgentNames) }

\* the first keyword group of _route_query the query falls in
QueryKinds == {"price", "news", "technical", "risk", "report", "other"}

\* _route_query: state.current_agent
route_query(kind) ==
    CASE kind = "price"     -> "market_data"
      [] kind = "news"      -> "news_sentiment"
      [] kind = "technical" -> "technical_analysis"
      [] kind = "risk"      -> "risk_assessment"
      [] kind = "report"    -> "report_generation"
      [] OTHER              -> "market_data"

Executed(w) == { w.agents_executed[m] : m \in 1..Len(w.agents_executed) }

\* _determine_next_agent
determine_next_agent(w) ==
    IF Len(w.agents_executed) >= Len(AgentNames) \/ w.current_agent = "report_generation"
      THEN "end"
    ELSE IF w.current_agent = "market_data" /\ "market_data" \in Executed(w)
      THEN "news_sentiment"
    ELSE IF w.current_agent = "news_sentiment" /\ "news_sentiment" \in Executed(w)
      THEN "technical_analysis"
    ELSE IF w.current_agent = "technical_analysis" /\ "technical_analysis" \in Executed(w)
      THEN "risk_assessment"
    ELSE IF w.current_agent = "risk_assessment" /\ "risk_assessment" \in Executed(w)
      THEN "report_generation"
    ELSE "end"

\* the number of agent runs a workflow is followed for
MaxRuns == 6

\* the router node
RouteQuery ==
    /\ workflow.node = "start"
    /\ workflow' = [workflow EXCEPT !.current_agent = route_query(workflow.query),
                                     !.node = "router"]

\* from the router to the agent it chose
RouterEdge ==
    /\ workflow.node = "router"
    /\ workflow' = [workflow EXCEPT !.node = workflow.current_agent, !.ran = FALSE]

\* _run_agent(agent_name, state): process returns a result or raises
RunAgent ==
    /\ workflow.node \in AgentSet /\ ~workflow.ran
    /\ Len(workflow.runs) < MaxRuns
    /\ \E raised \in BOOLEAN :
          workflow' = [workflow EXCEPT
              !.ran = TRUE,
              !.runs = Append(@, workflow.node),
              !.error = IF raised THEN TRUE ELSE @,
              !.agents_executed =
                  IF raised \/ workflow.node \in Executed(workflow) THEN @
                  ELSE Append(@, workflow.node)]

\* the conditional edge of the agent that ran: "end", another agent, or the
\* agent itself, which the edge map of its node does not hold (the graph
\* library then fails the workflow, or the agent runs again)
DetermineNextAgent ==
    /\ workflow.node \in AgentSet /\ workflow.ran
    /\ LET next == determine_next_agent(workflow)
       IN  IF next = "end"
             THEN workflow' = [workflow EXCEPT !.node = "end"]
           ELSE IF next # workflow.node
             THEN workflow' = [workflow EXCEPT !.node = next, !.ran = FALSE]
           ELSE \/ workflow' = [workflow EXCEPT !.node = "failed"]
                \/ workflow' = [workflow EXCEPT !.node = next, !.ran = FALSE]

NextWorkflow ==
    /\ RouteQuery \/ RouterEdge \/ RunAgent \/ DetermineNextAgent
    /\ UNCHANGED <<df, indicators, readings, analysis_results, signals, pc, exc, call, ret,
                   patterns, status, cached_analysis, tasks, clock, messages,
                   state_indicators, market_cache>>

InitWorkflow ==
    /\ workflow \in { [node |-> "start", query |-> q, current_agent |-> "",
                        agents_executed |-> <<>>, runs |-> <<>>, error |-> FALSE,
                        ran |-> FALSE] : q \in QueryKinds }
    /\ df = Table({}, 1, <<>>, <<>>)
    /\ indicators = {}
    /\ readings = ReadingOf(<<90, 90>>, 50, <<3, 2>>, <<110, 90>>, <<50, 50>>,
                            <<102, 101, 95, 90>>, <<90, 1>>)
    /\ analysis_results = EmptyDict
    /\ signals = EmptyDict
    /\ pc = "idle"
    /\ exc = "none"
    /\ call = NoCall
    /\ ret = NoCall
    /\ patterns = EmptyDict
    /\ status = "idle"
    /\ cached_analysis = EmptyDict
    /\ tasks = <<>>
    /\ clock = 0
    /\ messages = 0
    /\ state_indicators = DefaultIndicators
    /\ market_cache = [cached_data |-> <<>>, last_cache_update |-> None]

\* the workflow keeps going while a node can be run
SpecWorkflow == InitWorkflow /\ [][NextWorkflow]_vars /\ WF_vars(NextWorkflow)

\* position of an agent in the sequential order
OrderOf(name) == CHOOSE m \in 1..Len(AgentNames) : AgentNames[m] = name

\* the runs so far are the agents from the router's choice onward, in order
\* and each once
SequentialRuns(w) ==
    \A m \in 1..Len(w.runs) :
        OrderOf(w.runs[m]) = OrderOf(route_query(w.query)) + m - 1

\* C29: a workflow started by the orchestrator terminates for every routed
\* starting agent: alternating _run_agent and _determine_next_agent from the
\* router's choice reaches "end" after finitely many steps, executing the
\* agents in the sequential order market_data, news_sentiment,
\* technical_analysis, risk_assessment, report_generation from the starting
\* agent onward, and never executing the same agent twice.
C29_SequentialWorkflow ==
    /\ [](workflow.node # "none" =>
            /\ SequentialRuns(workflow)
            /\ \A m \in 1..Len(workflow.runs) : \A k \in 1..Len(workflow.runs) :
                  workflow.runs[m] = workflow.runs[k] => m = k)
    /\ <>(workflow.node = "end")

\* the runs are in order and never repeat
C29_InOrderNoRepeat ==
    workflow.node # "none" => SequentialRuns(workflow)

\* the workflow comes to "end"
C29_Terminates == <>(workflow.node = "end")

\* what the code does: the routed agent runs once; unless it raised or is
\* report_generation its successor is chosen after every later run, so the
\* successor runs again and again or the graph fails
C29_SuccessorRepeats ==
    workflow.node # "none" =>
        \A m \in 1..Len(workflow.runs) :
            workflow.runs[m] = (IF m = 1 THEN route_query(workflow.query)
                                ELSE AgentNames[OrderOf(route_query(workflow.query)) + 1])

\* the second agent has run twice
C29_RepeatReached ==
    /\ workflow.node # "none"
    /\ Len(workflow.runs) >= 3
    /\ workflow.runs[2] = workflow.runs[3]

(***************************************************************************)
(* The market data agent: fetch_market_data and clear_cache                *)
(***************************************************************************)

\* a call of fetch_market_data before its first statement
NewFetch(symbol) ==
    [symbol |-> symbol, period |-> 100, interval |-> "1d", pc |-> "call",
     hit |-> FALSE, ret |-> NoCall]

\* the result of a fetch that reached the provider at time now
ProviderResult(symbol, now) == [kind |-> "data", symbol |-> symbol, timestamp |-> now]

\* fetch_market_data up to its first await: the cached entry if the key is
\* there and the last store of any entry is less than cache_duration old
FetchCheck(t) ==
    /\ tasks[t].pc = "call"
    /\ IF CacheHit(tasks[t])
         THEN tasks' = [tasks EXCEPT ![t] =
                  [@ EXCEPT !.pc = "returned", !.hit = TRUE,
                            !.ret = market_cache.cached_data[MarketKey(tasks[t])]]]
         ELSE tasks' = [tasks EXCEPT ![t] = [@ EXCEPT !.pc = "provider"]]
    /\ UNCHANGED <<market_cache, clock>>

\* the provider answered: the result is stored and last_cache_update set,
\* or the provider failed or had no rows and the error is returned
FetchProvider(t) ==
    /\ tasks[t].pc = "provider"
    /\ \E failed \in BOOLEAN :
          IF failed
            THEN /\ tasks' = [tasks EXCEPT ![t] =
                        [@ EXCEPT !.pc = "returned",
                                  !.ret = [kind |-> "error", symbol |-> tasks[t].symbol]]]
                 /\ UNCHANGED market_cache
            ELSE /\ tasks' = [tasks EXCEPT ![t] =
                        [@ EXCEPT !.pc = "returned",
                                  !.ret = ProviderResult(tasks[t].symbol, clock)]]
                 /\ market_cache' =
                        [cached_data |->
                            [k \in DOMAIN market_cache.cached_data \cup {MarketKey(tasks[t])} |->
                                IF k = MarketKey(tasks[t])
                                  THEN ProviderResult(tasks[t].symbol, clock)
                                  ELSE market_cache.cached_data[k]],
                         last_cache_update |-> clock]
    /\ UNCHANGED clock

\* clear_cache
ClearCache ==
    /\ market_cache.cached_data # <<>> \/ market_cache.last_cache_update # None
    /\ market_cache' = [cached_data |-> <<>>, last_cache_update |-> None]
    /\ UNCHANGED <<tasks, clock>>

\* the hours the calls are spread over
MaxHours == 2

\* cache_duration seconds pass
HourPasses ==
    /\ clock + cache_duration <= MaxHours * cache_duration
    /\ clock' = clock + cache_duration
    /\ UNCHANGED <<tasks, market_cache>>

NextCache ==
    /\ \/ \E t \in DOMAIN tasks : FetchCheck(t) \/ FetchProvider(t)
       \/ ClearCache
       \/ HourPasses
    /\ UNCHANGED <<df, indicators, readings, analysis_results, signals, pc, exc, call, ret,
                   patterns, status, cached_analysis, messages, state_indicators,
                   workflow>>

\* the number of fetch calls
MaxFetches == 3

InitCache ==
    /\ tasks \in [1..MaxFetches -> { NewFetch(sym) : sym \in AgentSymbols }]
    /\ market_cache = [cached_data |-> <<>>, last_cache_update |-> None]
    /\ clock = 0
    /\ df = Table({}, 1, <<>>, <<>>)
    /\ indicators = {}
    /\ readings = ReadingOf(<<90, 90>>, 50, <<3, 2>>, <<110, 90>>, <<50, 50>>,
                            <<102, 101, 95, 90>>, <<90, 1>>)
    /\ analysis_results = EmptyDict
    /\ signals = EmptyDict
    /\ pc = "idle"
    /\ exc = "none"
    /\ call = NoCall
    /\ ret = NoCall
    /\ patterns = EmptyDict
    /\ status = "idle"
    /\ cached_analysis = EmptyDict
    /\ messages = 0
    /\ state_indicators = DefaultIndicators
    /\ workflow = NoWorkflow

SpecCache == InitCache /\ [][NextCache]_vars

\* this step returns a cached entry to fetch t
ReturnsCached(t) == tasks[t].pc = "call" /\ tasks'[t].hit

\* this step is a clear_cache
Cleared == market_cache' = [cached_data |-> <<>>, last_cache_update |-> None]
           /\ market_cache' # market_cache

\* C30: over any sequence of fetch_market_data calls with any mix of keys, a
\* cached entry is returned only if that entry itself was stored less than
\* cache_duration seconds earlier; a result carrying an error is never stored
\* in the cache; and after clear_cache the next fetch for any key goes to the
\* provider.
C30_CacheFreshness ==
    [][/\ \A t \in DOMAIN tasks :
             ReturnsCached(t) =>
                 clock - tasks'[t].ret.timestamp < cache_duration
       /\ \A k \in DOMAIN market_cache'.cached_data :
             market_cache'.cached_data[k].kind # "error"
       /\ Cleared => \A t \in DOMAIN tasks : ~CacheHit(tasks[t])']_vars

\* the first part of C30 alone
C30_OwnAge ==
    [][\A t \in DOMAIN tasks :
          ReturnsCached(t) => clock - tasks'[t].ret.timestamp < cache_duration]_vars

\* the parts of C30 that hold: no error is stored, no key passes for cached
\* after clear_cache, and a cached entry is returned only if some entry was
\* stored less than cache_duration seconds earlier
C30_LastStoreAge ==
    [][/\ \A t \in DOMAIN tasks :
             ReturnsCached(t) =>
                 /\ tasks'[t].ret = market_cache.cached_data[MarketKey(tasks[t])]
                 /\ clock - market_cache.last_cache_update < cache_duration
       /\ \A k \in DOMAIN market_cache'.cached_data :
             market_cache'.cached_data[k].kind # "error"
       /\ Cleared => \A t \in DOMAIN tasks : ~CacheHit(tasks[t])']_vars

\* an entry an hour old or older came back from the cache
C30_StaleReached ==
    \E t \in DOMAIN tasks :
        /\ tasks[t].pc = "returned" /\ tasks[t].hit
        /\ \E u \in DOMAIN tasks :
              /\ tasks[u].pc = "returned" /\ ~tasks[u].hit
              /\ tasks[u].ret.kind = "data"
              /\ tasks[u].ret.timestamp - tasks[t].ret.timestamp >= cache_duration

====
